---------------------------- MODULE Spec2Model ----------------------------
(***************************************************************************)
(* Model of the gaming-news crawler (isvaku/atomix-to-notion):             *)
(*   - WebScraper.fetchWithRetry / getArticleLinks  (src/utils/scraper.ts) *)
(*   - WebScraper.scrapeArticle                     (src/utils/scraper.ts) *)
(*   - NotionClient.createPage (HTML -> blocks)     (src/utils/logger.ts)  *)
(*   - CrawlerJob.runCrawler and the Entry store    (src/jobs/crawler.ts)  *)
(*   - Database connect / disconnect                (src/database)       *)
(*   - NotionSyncJob.runSync                        (src/jobs/crawler.ts)  *)
(*   - Application start and shutdown               (src/index.ts)         *)
(* Strings are sequences of one-character strings, so that trim, includes, *)
(* startsWith and concatenation are computed as the code computes them.    *)
(***************************************************************************)
EXTENDS Integers, Sequences, FiniteSets, TLC

(***************************************************************************)
(* Bounds of the model: configuration values, scaled down.  maxPages and   *)
(* maxArticlesPerRun are read from the environment (config/index.ts);      *)
(* MAX_RICH_TEXT_LENGTH and MAX_BODY_LENGTH are imported from ./constants. *)
(***************************************************************************)
maxPages == 3
maxArticlesPerRun == 2
MAX_RICH_TEXT_LENGTH == 3
MAX_BODY_LENGTH == 2

(***************************************************************************)
(* Program constants.                                                      *)
(***************************************************************************)
retries == 3
retryDelay == 2000
SettleDelay == 4000

(***************************************************************************)
(* String helpers (JavaScript String methods on character sequences).      *)
(***************************************************************************)
Min(a, b) == IF a <= b THEN a ELSE b

StartsWith(s, p) == Len(s) >= Len(p) /\ SubSeq(s, 1, Len(p)) = p

EndsWith(s, p) ==
    Len(s) >= Len(p) /\ SubSeq(s, Len(s) - Len(p) + 1, Len(s)) = p

Includes(s, p) ==
    \E i \in 0..(Len(s) - Len(p)) : SubSeq(s, i + 1, i + Len(p)) = p

\* Array.prototype.slice(0, n)
Slice_TakesOneMore(s, n) == SubSeq(s, 1, Min(n + 1, Len(s)))

Slice(s, n) == SubSeq(s, 1, Min(n, Len(s)))

HTTP == <<"h", "t", "t", "p">>
HASH == <<"#">>
JAVASCRIPT == <<"j", "a", "v", "a", "s", "c", "r", "i", "p", "t", ":">>

(***************************************************************************)
(* The listing site.  sourceUrl is the configured base URL; a listing page *)
(* is the sequence of href attribute values of the anchors matched by the  *)
(* link selector (<<>> as an href is an anchor whose href is empty).       *)
(***************************************************************************)
sourceUrl == HTTP \o <<":", "/", "/", "s">>

HrefA == sourceUrl \o <<"/", "a">>
HrefB == <<"b">>
HrefC == <<"c">>
HrefD == HTTP \o <<":", "/", "/", "t", "/", "d">>
HrefFrag == <<"#", "t">>
HrefAFrag == HrefA \o <<"#", "t">>
HrefJs == JAVASCRIPT \o <<"v">>
HrefEmpty == <<>>

ListingPages ==
    { <<HrefA, HrefB, HrefA>>,
      <<HrefB, HrefFrag, HrefC>>,
      <<HrefJs, HrefD, HrefEmpty>>,
      <<HrefAFrag>> }

\* the callback of page.evaluate: one absolute URL per anchor with an href
RECURSIVE pageLinks(_)
pageLinks(hrefs) ==
    IF hrefs = <<>> THEN <<>>
    ELSE LET href == Head(hrefs)
             isAbsolute == StartsWith(href, HTTP)
             absoluteUrl == IF isAbsolute THEN href
                            ELSE sourceUrl \o <<"/">> \o href
         IN  IF href /= <<>>
             THEN <<absoluteUrl>> \o pageLinks(Tail(hrefs))
             ELSE pageLinks(Tail(hrefs))

\* [...new Set(links)]: first occurrences, in insertion order
SetOf(s) ==
    LET tagged == [i \in 1..Len(s) |-> <<i, s[i]>>]
        first == SelectSeq(tagged,
                     LAMBDA p : \A j \in 1..(p[1] - 1) : s[j] /= p[2])
    IN  [i \in 1..Len(first) |-> first[i][2]]

validLink_NoHashCheck(link) ==
    /\ Includes(link, HTTP)
    /\ ~Includes(link, JAVASCRIPT)

validLink(link) ==
    /\ Includes(link, HTTP)
    /\ ~Includes(link, HASH)
    /\ ~Includes(link, JAVASCRIPT)

uniqueLinks(ls) == SelectSeq(SetOf(ls), validLink)

\* the value of the normal return statement of getArticleLinks
returnValue_NoCap(ls) == uniqueLinks(ls)

returnValue(ls) == Slice(uniqueLinks(ls), maxArticlesPerRun)

(***************************************************************************)
(* State.                                                                  *)
(***************************************************************************)
VARIABLES
    pc,                       \* position inside getArticleLinks
    nextPageSelector,         \* TRUE iff a pagination selector is configured
    nextPageLoadsInSamePage,  \* pagination mode of the source
    attempt,                  \* parameter of the running fetchWithRetry
    fetchLog,                 \* outcome of each attempt made so far
    waited,                   \* the delays slept so far, in order
    page,                     \* 0 = null, j = the page loaded by attempt j
    fetchOutcome,             \* "pending", "page" or "error"
    links,                    \* the accumulator of getArticleLinks
    currentPage,              \* the page counter of getArticleLinks
    result,                   \* the list returned to the caller
    caught,                   \* the outer catch of getArticleLinks ran
    errorKind,                \* which step raised, "none" if none did
    controlAbsent,            \* the pagination control was absent at lookup
    pagesExtracted,           \* number of listing pages links were taken from
    paginationSteps,          \* number of successful pagination steps
    thrown,                   \* 0, or k = the error caught in attempt k is thrown
    documents                 \* what the browser's first page has shown, in order

VARIABLES
    scraped,                  \* "none", "null" or "article": scrapeArticle's result
    source,                   \* the Source passed to scrapeArticle
    dateText,                 \* the text the date selector chain yielded
    now,                      \* the clock when the date was parsed
    article,                  \* the ScrapedArticle returned
    articleUrl,               \* the url passed to scrapeArticle
    markup,                   \* what the selectors of the source find in the page
    fetched,                  \* axios.get resolved in the last call
    calls,                    \* number of scrapeArticle calls made
    previous,                 \* result, article and clock of the call before
    requests,                 \* the requests axios made for the page in this call
    parsedText                \* the date text handed to the date parser

VARIABLES
    isRunning,                \* CrawlerJob.isRunning
    runs,                     \* the locals of every invocation of runCrawler
    inFlight,                 \* fetches of the scraper that are under way
    browser,                  \* TRUE iff WebScraper.browser is not null
    isConnected,              \* Database.isConnected
    store                     \* the Entry collection, in insertion order

VARIABLES
    readyState,               \* mongoose.connection.readyState
    listening,                \* the handlers of the connection events are set
    lost,                     \* the driver lost the server and tries to reconnect
    dbCalls,                  \* where every caller of the Database stands
    dbEvent,                  \* what the last step of the Database was
    wasConnected              \* isConnectedToDb() when the last call was made

VARIABLES
    syncRunning,              \* NotionSyncJob.isRunning
    syncs,                    \* the invocations of runSync and their locals
    pageCreated               \* entryIds for which createPage returned true

VARIABLES
    appStarted,               \* Application.start() has set the process up
    isShuttingDown,           \* Application.isShuttingDown
    crawlerCron,              \* CrawlerJob.job is not null
    syncCron,                 \* NotionSyncJob.job is not null
    shutdown,                 \* where the call of shutdown(signal) stands
    sigintHandler,            \* where the SIGINT handler of the Database stands
    exitCode,                 \* "none", or the code given to process.exit
    signals,                  \* signals received so far
    disconnectedInRun         \* a handler disconnected with a run in progress

VARIABLES
    created,                  \* "none", "true" or "false": createPage's result
    content,                  \* the parsed entry.content: the root's children
    contentBlocks,            \* the blocks produced by the tree walk
    children                  \* noteBody.children, the blocks sent

linkVars == <<pc, nextPageSelector, nextPageLoadsInSamePage, attempt, fetchLog,
              waited, page, fetchOutcome, links, currentPage, result, caught,
              errorKind, controlAbsent, pagesExtracted, paginationSteps,
              thrown, documents>>

scrapeVars == <<scraped, source, dateText, now, article, articleUrl, markup,
                fetched, calls, previous, requests, parsedText>>

convVars == <<created, content, contentBlocks, children>>

jobVars == <<isRunning, runs, inFlight, browser, isConnected, store>>

dbVars == <<readyState, listening, lost, dbCalls, dbEvent, wasConnected>>

syncVars == <<syncRunning, syncs, pageCreated>>

appVars == <<appStarted, isShuttingDown, crawlerCron, syncCron, shutdown,
             sigintHandler, exitCode, signals, disconnectedInRun>>

vars == <<linkVars, scrapeVars, convVars, jobVars, dbVars, syncVars, appVars>>

\* what the steps of getArticleLinks leave alone
notLinkVars == <<scrapeVars, convVars, jobVars, dbVars, syncVars, appVars>>

\* the first page of the browser when a call starts: there is none yet, or
\* an earlier call whose fetch failed left it open on the URL it had asked for
Documents == {<<>>, <<"stale">>}

\* the document the page shows now
Current(docs) == IF docs = <<>> THEN "none" ELSE docs[Len(docs)]

InitLinks ==
    /\ pc = "idle"
    /\ nextPageSelector = FALSE
    /\ nextPageLoadsInSamePage = FALSE
    /\ attempt = 0
    /\ fetchLog = <<>>
    /\ waited = <<>>
    /\ page = 0
    /\ fetchOutcome = "pending"
    /\ links = <<>>
    /\ currentPage = 0
    /\ result = <<>>
    /\ caught = FALSE
    /\ errorKind = "none"
    /\ controlAbsent = FALSE
    /\ pagesExtracted = 0
    /\ paginationSteps = 0
    /\ thrown = 0
    /\ documents = <<>>

(***************************************************************************)
(* WebScraper.fetchWithRetry, called from getArticleLinks.                 *)
(***************************************************************************)
\* the guard of the retry in the catch block
canRetry_OneMore(a) == a <= retries

canRetry(a) == a < retries

\* the condition of the while loop
loopGuard_OneMore(cp) == cp <= maxPages + 1

loopGuard(cp) == cp <= maxPages

\* this.delay(this.retryDelay * attempt) in the catch block
backoff_Constant(a) == retryDelay

backoff(a) == retryDelay * a

\* page.goto("about:blank") at the start of an attempt
resetDocument_Skipped(docs) == docs

resetDocument(docs) == Append(docs, "blank")

\* what the page shows once page.goto(url) has resolved: the requested
\* document, unless the page was on a document of the same URL up to its
\* fragment, when the navigation stays in that document and loads nothing
loaded(docs) ==
    IF Current(docs) = "blank"
    THEN {Append(docs, "listing")}
    ELSE {Append(docs, "listing"), docs}

\* what the page shows when an attempt has failed: nothing new when a step
\* before the navigation rejected or nothing had loaded yet, else as much of
\* the requested document as had loaded
leftBy(at, docs) ==
    IF at = "goto" THEN {docs, Append(docs, "partial")} ELSE {docs}

\* getArticleLinks is called, the browser's first page being as docs says:
\* fetchWithRetry(fullUrl) starts with attempt 1
GetArticleLinks(sel, same, docs) ==
    /\ pc = "idle"
    /\ pc' = "fetch"
    /\ nextPageSelector' = sel
    /\ nextPageLoadsInSamePage' = same
    /\ documents' = docs
    /\ attempt' = 1
    /\ UNCHANGED <<fetchLog, waited, page, fetchOutcome, links, currentPage,
                   result, caught, errorKind, controlAbsent, pagesExtracted,
                   paginationSteps, thrown>>
    /\ UNCHANGED notLinkVars

\* the attempt has its page (the browser's first page, or a new one) and
\* resets it: page.goto("about:blank") resolves
ResetPage ==
    /\ pc = "fetch"
    /\ documents' = resetDocument(documents)
    /\ pc' = "goto"
    /\ UNCHANGED <<nextPageSelector, nextPageLoadsInSamePage, attempt,
                   fetchLog, waited, page, fetchOutcome, links, currentPage,
                   result, caught, errorKind, controlAbsent, pagesExtracted,
                   paginationSteps, thrown>>
    /\ UNCHANGED notLinkVars

\* page.goto(url) resolves: the page is returned, the loop is entered
FetchSucceeds ==
    /\ pc = "goto"
    /\ fetchLog' = Append(fetchLog, TRUE)
    /\ page' = attempt
    /\ documents' \in loaded(documents)
    /\ fetchOutcome' = "page"
    /\ links' = <<>>
    /\ currentPage' = 1
    /\ pc' = "loop"
    /\ UNCHANGED <<nextPageSelector, nextPageLoadsInSamePage, attempt, waited,
                   result, caught, errorKind, controlAbsent, pagesExtracted,
                   paginationSteps, thrown>>
    /\ UNCHANGED notLinkVars

\* a step of the attempt rejects and attempts remain: back off, then
\* attempt + 1
FetchFailsRetry ==
    /\ pc \in {"fetch", "goto"}
    /\ canRetry(attempt)
    /\ fetchLog' = Append(fetchLog, FALSE)
    /\ documents' \in leftBy(pc, documents)
    /\ waited' = Append(waited, backoff(attempt))
    /\ attempt' = attempt + 1
    /\ pc' = "fetch"
    /\ UNCHANGED <<nextPageSelector, nextPageLoadsInSamePage, page,
                   fetchOutcome, links, currentPage, result, caught, errorKind,
                   controlAbsent, pagesExtracted, paginationSteps, thrown>>
    /\ UNCHANGED notLinkVars

\* a step of the last attempt rejects: its error is thrown to
\* getArticleLinks, whose outer catch returns []
FetchFailsThrow ==
    /\ pc \in {"fetch", "goto"}
    /\ ~canRetry(attempt)
    /\ fetchLog' = Append(fetchLog, FALSE)
    /\ documents' \in leftBy(pc, documents)
    /\ thrown' = attempt
    /\ fetchOutcome' = "error"
    /\ errorKind' = "fetch"
    /\ caught' = TRUE
    /\ result' = <<>>
    /\ pc' = "returned"
    /\ UNCHANGED <<nextPageSelector, nextPageLoadsInSamePage, attempt, waited,
                   page, links, currentPage, controlAbsent, pagesExtracted,
                   paginationSteps>>
    /\ UNCHANGED notLinkVars

(***************************************************************************)
(* WebScraper.getArticleLinks: the pagination loop.                        *)
(***************************************************************************)
loopFrame == <<nextPageSelector, nextPageLoadsInSamePage, attempt, fetchLog,
               page, fetchOutcome, thrown, documents>>

\* while (currentPage <= maxPages) is false: the loop ends, normal return
LoopExit ==
    /\ pc = "loop"
    /\ ~loopGuard(currentPage)
    /\ result' = returnValue(links)
    /\ pc' = "returned"
    /\ UNCHANGED <<loopFrame, waited, links, currentPage, caught, errorKind,
                   controlAbsent, pagesExtracted, paginationSteps>>
    /\ UNCHANGED notLinkVars

\* waitForSelector(linkSelector) resolves
LinkSelectorFound ==
    /\ pc = "loop"
    /\ loopGuard(currentPage)
    /\ pc' = "extract"
    /\ UNCHANGED <<loopFrame, waited, links, currentPage, result, caught,
                   errorKind, controlAbsent, pagesExtracted, paginationSteps>>
    /\ UNCHANGED notLinkVars

\* what the call returns when the wait for the link selector has timed out:
\* the catch around the wait breaks out of the loop
afterSelectorTimeout_Empty(ls) == <<>>

afterSelectorTimeout(ls) == returnValue(ls)

\* waitForSelector(linkSelector) times out: inner catch, break, normal return
LinkSelectorTimeout ==
    /\ pc = "loop"
    /\ loopGuard(currentPage)
    /\ errorKind' = "selector"
    /\ result' = afterSelectorTimeout(links)
    /\ pc' = "returned"
    /\ UNCHANGED <<loopFrame, waited, links, currentPage, caught,
                   controlAbsent, pagesExtracted, paginationSteps>>
    /\ UNCHANGED notLinkVars

\* page.evaluate returns the anchors' URLs; no pagination selector is
\* configured: break, normal return
ExtractLinksLastPage(hrefs) ==
    /\ pc = "extract"
    /\ ~nextPageSelector
    /\ links' = links \o pageLinks(hrefs)
    /\ pagesExtracted' = pagesExtracted + 1
    /\ result' = returnValue(links')
    /\ pc' = "returned"
    /\ UNCHANGED <<loopFrame, waited, currentPage, caught, errorKind,
                   controlAbsent, paginationSteps>>
    /\ UNCHANGED notLinkVars

\* page.evaluate returns the anchors' URLs; a pagination selector is
\* configured: go on to waitForSelector(nextPageSelector)
ExtractLinksThenLookup(hrefs) ==
    /\ pc = "extract"
    /\ nextPageSelector
    /\ links' = links \o pageLinks(hrefs)
    /\ pagesExtracted' = pagesExtracted + 1
    /\ pc' = "waitNext"
    /\ UNCHANGED <<loopFrame, waited, currentPage, result, caught, errorKind,
                   controlAbsent, paginationSteps>>
    /\ UNCHANGED notLinkVars

\* page.evaluate rejects: outer catch, return []
ExtractLinksThrows ==
    /\ pc = "extract"
    /\ errorKind' = "extract"
    /\ caught' = TRUE
    /\ result' = <<>>
    /\ pc' = "returned"
    /\ UNCHANGED <<loopFrame, waited, links, currentPage, controlAbsent,
                   pagesExtracted, paginationSteps>>
    /\ UNCHANGED notLinkVars

\* waitForSelector(nextPageSelector) resolves: the control is in the page
NextSelectorFound ==
    /\ pc = "waitNext"
    /\ pc' = "queryNext"
    /\ UNCHANGED <<loopFrame, waited, links, currentPage, result, caught,
                   errorKind, controlAbsent, pagesExtracted, paginationSteps>>
    /\ UNCHANGED notLinkVars

\* waitForSelector(nextPageSelector) times out because the control is not in
\* the page: the call is outside the inner try, so outer catch, return []
NextSelectorTimeout ==
    /\ pc = "waitNext"
    /\ controlAbsent' = TRUE
    /\ errorKind' = "lookup"
    /\ caught' = TRUE
    /\ result' = <<>>
    /\ pc' = "returned"
    /\ UNCHANGED <<loopFrame, waited, links, currentPage, pagesExtracted,
                   paginationSteps>>
    /\ UNCHANGED notLinkVars

\* page.$(nextPageSelector) returns the element
QueryNextExists ==
    /\ pc = "queryNext"
    /\ pc' = "paginate"
    /\ UNCHANGED <<loopFrame, waited, links, currentPage, result, caught,
                   errorKind, controlAbsent, pagesExtracted, paginationSteps>>
    /\ UNCHANGED notLinkVars

\* page.$(nextPageSelector) returns null (the control left the page after the
\* wait resolved): "No more pages found", break, normal return
QueryNextNull ==
    /\ pc = "queryNext"
    /\ controlAbsent' = TRUE
    /\ result' = returnValue(links)
    /\ pc' = "returned"
    /\ UNCHANGED <<loopFrame, waited, links, currentPage, caught, errorKind,
                   pagesExtracted, paginationSteps>>
    /\ UNCHANGED notLinkVars

\* the click and the wait that follows it succeed: currentPage++
PaginateSucceeds ==
    /\ pc = "paginate"
    /\ waited' = IF nextPageLoadsInSamePage
                 THEN Append(waited, SettleDelay)
                 ELSE waited
    /\ currentPage' = currentPage + 1
    /\ paginationSteps' = paginationSteps + 1
    /\ pc' = "loop"
    /\ UNCHANGED <<loopFrame, links, result, caught, errorKind, controlAbsent,
                   pagesExtracted>>
    /\ UNCHANGED notLinkVars

\* the click or the wait that follows it rejects: inner catch, break,
\* normal return
PaginateFails ==
    /\ pc = "paginate"
    /\ errorKind' = "paginate"
    /\ result' = returnValue(links)
    /\ pc' = "returned"
    /\ UNCHANGED <<loopFrame, waited, links, currentPage, caught,
                   controlAbsent, pagesExtracted, paginationSteps>>
    /\ UNCHANGED notLinkVars

NextLinks ==
    \/ \E sel \in BOOLEAN, same \in BOOLEAN, docs \in Documents :
          GetArticleLinks(sel, same, docs)
    \/ ResetPage
    \/ FetchSucceeds
    \/ FetchFailsRetry
    \/ FetchFailsThrow
    \/ LoopExit
    \/ LinkSelectorFound
    \/ LinkSelectorTimeout
    \/ \E hrefs \in ListingPages : ExtractLinksLastPage(hrefs)
    \/ \E hrefs \in ListingPages : ExtractLinksThenLookup(hrefs)
    \/ ExtractLinksThrows
    \/ NextSelectorFound
    \/ NextSelectorTimeout
    \/ QueryNextExists
    \/ QueryNextNull
    \/ PaginateSucceeds
    \/ PaginateFails

(***************************************************************************)
(* Properties of fetchWithRetry and getArticleLinks.                       *)
(***************************************************************************)
AllFailed(log) == \A i \in 1..Len(log) : ~log[i]

\* C1: fetchWithRetry makes at most `retries` attempts; when attempts 1..j-1
\* fail and attempt j <= retries succeeds it returns the page of attempt j
\* after exactly j attempts; when all `retries` attempts fail it throws.
C1_BoundedRetry ==
    /\ Len(fetchLog) <= retries
    /\ fetchOutcome = "page" <=> (\E i \in 1..Len(fetchLog) : fetchLog[i])
    /\ fetchOutcome = "page" =>
          /\ fetchLog[Len(fetchLog)]
          /\ AllFailed(SubSeq(fetchLog, 1, Len(fetchLog) - 1))
          /\ page = Len(fetchLog)
    /\ fetchOutcome = "error" <=>
          (Len(fetchLog) = retries /\ AllFailed(fetchLog))
    /\ fetchOutcome = "pending" => page = 0

\* two failed attempts, then the third and last attempt succeeds
C1_Witness ==
    /\ fetchOutcome = "page"
    /\ fetchLog = <<FALSE, FALSE, TRUE>>
    /\ page = retries

\* C2: links are extracted from at most maxPages listing pages, the page
\* counter is one more than the number of successful pagination steps, and
\* the call returns, also when every page has a next-page control and every
\* pagination step succeeds.
C2_PaginationTerminates ==
    /\ [](/\ pagesExtracted <= maxPages
          /\ fetchOutcome = "page" => currentPage = 1 + paginationSteps)
    /\ <>(pc = "returned")

\* every page had the control and every pagination step succeeded
C2_Witness ==
    /\ pc = "returned"
    /\ errorKind = "none"
    /\ ~controlAbsent
    /\ pagesExtracted = maxPages
    /\ paginationSteps = maxPages

\* the case of C3: one listing page with anchors, and no next-page control
\* (none configured, or the configured one is not in the page)
C3_Case ==
    /\ pc = "returned"
    /\ pagesExtracted = 1
    /\ paginationSteps = 0
    /\ links /= <<>>
    /\ ~nextPageSelector \/ controlAbsent

\* C3: with anchors on the listing page and the next-page control absent,
\* getArticleLinks returns normally after that one page with exactly the
\* deduplicated, filtered URLs of those anchors.
C3_AbsentControlReturnsLinks ==
    C3_Case => /\ ~caught
               /\ result = returnValue(links)

\* C4: an error while processing a listing page (extraction, control lookup,
\* pagination step) makes getArticleLinks return the links accumulated so
\* far, not an empty list.
C4_PartialResultsOnError ==
    (pc = "returned" /\ errorKind \in {"extract", "lookup", "paginate"})
        => result = returnValue(links)

\* C5: the returned list holds no URL twice, no URL with a fragment and no
\* javascript: pseudo-URL.
C5_NoDuplicateNoFragmentNoScript ==
    /\ \A i, j \in 1..Len(result) : result[i] = result[j] => i = j
    /\ \A i \in 1..Len(result) :
          /\ ~Includes(result[i], HASH)
          /\ ~Includes(result[i], JAVASCRIPT)

\* a normal return of a non-empty list after a duplicate, a fragment URL and
\* a javascript: URL were collected
C5_Witness ==
    /\ pc = "returned"
    /\ result /= <<>>
    /\ \E i, j \in 1..Len(links) : i < j /\ links[i] = links[j]
    /\ \E i \in 1..Len(links) : Includes(links[i], HASH)
    /\ \E i \in 1..Len(links) : Includes(links[i], JAVASCRIPT)

\* index of the first occurrence of u in the accumulator
FirstSeen(u) == CHOOSE i \in 1..Len(links) :
                   links[i] = u /\ \A j \in 1..(i - 1) : links[j] /= u

\* the distinct well-formed URLs collected
Discovered == {links[i] : i \in {k \in 1..Len(links) : validLink(links[k])}}

\* C6: the returned list has at most maxArticlesPerRun entries; on a normal
\* return it holds distinct discovered URLs in discovery order, and a
\* discovered URL is left out only when the list is full and the URL was
\* discovered after every returned one.
C6_CappedInDiscoveryOrder ==
    /\ Len(result) <= maxArticlesPerRun
    /\ (pc = "returned" /\ ~caught) =>
          /\ \A i \in 1..Len(result) : result[i] \in Discovered
          /\ \A i, j \in 1..Len(result) :
                i < j => FirstSeen(result[i]) < FirstSeen(result[j])
          /\ \A u \in Discovered :
                (\A i \in 1..Len(result) : result[i] /= u) =>
                    /\ Len(result) = maxArticlesPerRun
                    /\ \A i \in 1..Len(result) :
                          FirstSeen(result[i]) < FirstSeen(u)

\* a normal return where more URLs were discovered than the cap allows
C6_Witness ==
    /\ pc = "returned"
    /\ ~caught
    /\ Cardinality(Discovered) > maxArticlesPerRun
    /\ Len(result) = maxArticlesPerRun

\* the delays slept between attempts: one after each failed attempt but the
\* last of a call that threw
Backoffs ==
    IF fetchOutcome = "pending" THEN Len(fetchLog) ELSE Len(fetchLog) - 1

\* C22: after k failed attempts, k less than the number of attempts allowed,
\* fetchWithRetry sleeps retryDelay * k before attempt k + 1; after the last
\* failed attempt it sleeps no more and throws the error of that attempt.
C22_LinearBackoffThenLastError ==
    /\ Len(waited) = Backoffs + (IF nextPageLoadsInSamePage
                                 THEN paginationSteps ELSE 0)
    /\ \A k \in 1..Backoffs : ~fetchLog[k] /\ waited[k] = retryDelay * k
    /\ fetchOutcome = "error" =>
          /\ thrown = Len(fetchLog)
          /\ Len(waited) = retries - 1
    /\ fetchOutcome /= "error" => thrown = 0

\* every attempt failed: two sleeps, the error of the third attempt thrown
C22_Witness ==
    /\ fetchOutcome = "error"
    /\ waited = <<retryDelay, 2 * retryDelay>>
    /\ thrown = retries

\* C23: an attempt loads the URL into a page it has just reset to the blank
\* document, and the page fetchWithRetry returns shows the requested
\* document, never one the page showed before.
C23_BlankBeforeLoad ==
    /\ pc = "goto" => Current(documents) = "blank"
    /\ fetchOutcome = "page" =>
          /\ Current(documents) = "listing"
          /\ documents[Len(documents) - 1] = "blank"

\* the page was left on an earlier URL, a first attempt left part of a
\* document, and the second attempt returns the page
C23_Witness ==
    /\ fetchOutcome = "page"
    /\ documents = <<"stale", "blank", "partial", "blank", "listing">>

\* C25: when the wait for the link selector times out on listing page k the
\* call returns normally, with the deduplicated, filtered links of pages
\* 1..k-1, which is the empty list when k = 1.
C25_SelectorTimeoutReturnsGathered ==
    (pc = "returned" /\ errorKind = "selector") =>
        /\ ~caught
        /\ pagesExtracted = currentPage - 1
        /\ result = returnValue(links)
        /\ currentPage = 1 => result = <<>>

\* the selector is missing on page 2 and the links of page 1 are returned
C25_Witness ==
    /\ pc = "returned"
    /\ errorKind = "selector"
    /\ currentPage = 2
    /\ result /= <<>>

(***************************************************************************)
(* WebScraper.scrapeArticle: the fields, the identity and the date of the  *)
(* article.  A selector chain is modelled by what each alternative finds,  *)
(* in order: the raw text of the first element it matches, the html of     *)
(* every element it matches, or the class attribute of the first element   *)
(* (<<>> when it matches nothing or is not a valid selector).  A point in  *)
(* time is a natural number; NaN is the time value of an Invalid Date.     *)
(***************************************************************************)
WS == {" ", "\n"}
Digits == {"0", "1", "2", "3", "4", "5", "6", "7", "8", "9"}

RECURSIVE TrimStart(_)
TrimStart(s) ==
    IF s /= <<>> /\ Head(s) \in WS THEN TrimStart(Tail(s)) ELSE s

RECURSIVE TrimEnd(_)
TrimEnd(s) ==
    IF s /= <<>> /\ s[Len(s)] \in WS
    THEN TrimEnd(SubSeq(s, 1, Len(s) - 1))
    ELSE s

\* String.prototype.trim
Trim(s) == TrimEnd(TrimStart(s))

\* String.prototype.replace(c, ""): the first occurrence only
RECURSIVE RemoveFirst(_, _)
RemoveFirst(s, c) ==
    IF s = <<>> THEN <<>>
    ELSE IF Head(s) = c THEN Tail(s)
    ELSE <<Head(s)>> \o RemoveFirst(Tail(s), c)

RECURSIVE getTextFromSelectors_LastMatch(_)
getTextFromSelectors_LastMatch(rawTexts) ==
    IF rawTexts = <<>> THEN <<>>
    ELSE IF getTextFromSelectors_LastMatch(Tail(rawTexts)) /= <<>>
         THEN getTextFromSelectors_LastMatch(Tail(rawTexts))
         ELSE Trim(Head(rawTexts))

\* getTextFromSelectors: the first alternative whose trimmed text is not empty
RECURSIVE getTextFromSelectors(_)
getTextFromSelectors(rawTexts) ==
    IF rawTexts = <<>> THEN <<>>
    ELSE IF Trim(Head(rawTexts)) /= <<>> THEN Trim(Head(rawTexts))
    ELSE getTextFromSelectors(Tail(rawTexts))

\* index of the first c in s, 0 when s has none
IndexOf(s, c) ==
    IF \E i \in 1..Len(s) : s[i] = c
    THEN CHOOSE i \in 1..Len(s) : s[i] = c /\ \A j \in 1..(i - 1) : s[j] /= c
    ELSE 0

\* String.prototype.split(c) for a separator of one character
RECURSIVE Split(_, _)
Split(s, c) ==
    IF IndexOf(s, c) = 0 THEN <<s>>
    ELSE <<SubSeq(s, 1, IndexOf(s, c) - 1)>>
             \o Split(SubSeq(s, IndexOf(s, c) + 1, Len(s)), c)

\* Array.prototype.join(sep)
RECURSIVE Join(_, _)
Join(parts, sep) ==
    IF parts = <<>> THEN <<>>
    ELSE IF Len(parts) = 1 THEN parts[1]
    ELSE parts[1] \o sep \o Join(Tail(parts), sep)

\* the contents array one content selector fills: the trimmed html of every
\* element it matches, the empty ones left out
contentsOf(htmls) ==
    SelectSeq([i \in 1..Len(htmls) |-> Trim(htmls[i])], LAMBDA h : h /= <<>>)

\* getContentFromSelectors: the first alternative with a non-empty contents
\* array, joined by a blank line
RECURSIVE getContentFromSelectors(_)
getContentFromSelectors(rawHtmls) ==
    IF rawHtmls = <<>> THEN <<>>
    ELSE IF Len(contentsOf(Head(rawHtmls))) > 0
         THEN Join(contentsOf(Head(rawHtmls)), <<"\n", "\n">>)
         ELSE getContentFromSelectors(Tail(rawHtmls))

Letters ==
    {"a", "b", "c", "d", "e", "f", "g", "h", "i", "j", "k", "l", "m", "n", "o",
     "p", "q", "r", "s", "t", "u", "v", "w", "x", "y", "z",
     "A", "B", "C", "D", "E", "F", "G", "H", "I", "J", "K", "L", "M", "N", "O",
     "P", "Q", "R", "S", "T", "U", "V", "W", "X", "Y", "Z"}

POST == <<"p", "o", "s", "t", "-">>
QUERY_P == <<"/", "?", "p", "=">>

\* the entryId one class token assigns: nothing unless it starts with "post-"
classItemEntryId(src, classItem) ==
    IF StartsWith(classItem, POST)
    THEN IF src.name = "Atomix"
         THEN sourceUrl \o QUERY_P \o Split(classItem, "-")[2]
         ELSE Split(classItem, "-")[2]
    ELSE <<>>

\* the loop over classArray: it stops at the first token that leaves entryId
\* non-empty
RECURSIVE classArrayEntryId(_, _)
classArrayEntryId(src, classArray) ==
    IF classArray = <<>> THEN <<>>
    ELSE IF classItemEntryId(src, Head(classArray)) /= <<>>
         THEN classItemEntryId(src, Head(classArray))
         ELSE classArrayEntryId(src, Tail(classArray))

\* the loop over the entryId selectors: classNames holds, per selector, the
\* class attribute of the first element it matches (<<>> when there is none)
RECURSIVE classEntryId(_, _)
classEntryId(src, classNames) ==
    IF classNames = <<>> THEN <<>>
    ELSE IF classArrayEntryId(src, Split(Head(classNames), " ")) /= <<>>
         THEN classArrayEntryId(src, Split(Head(classNames), " "))
         ELSE classEntryId(src, Tail(classNames))

\* lastPart of the url, without the characters outside [a-zA-Z0-9]
urlEntryId(url) ==
    IF Split(url, "/")[Len(Split(url, "/"))] /= <<>>
    THEN SelectSeq(Split(url, "/")[Len(Split(url, "/"))],
                   LAMBDA c : c \in Letters \cup Digits)
    ELSE <<>>

\* the "Get entryId" step of scrapeArticle
entryIdOf_CountsCalls(url, src, classNames) ==
    IF classEntryId(src, classNames) /= <<>>
    THEN classEntryId(src, classNames)
    ELSE urlEntryId(url) \o <<<<"0", "1", "2", "3">>[calls + 1]>>

entryIdOf(url, src, classNames) ==
    IF classEntryId(src, classNames) /= <<>>
    THEN classEntryId(src, classNames)
    ELSE urlEntryId(url)

NaN == -1

DigitValue(c) == CHOOSE n \in 0..9 : <<"0", "1", "2", "3", "4", "5", "6", "7",
                                       "8", "9">>[n + 1] = c

RECURSIVE NumberOf(_)
NumberOf(s) ==
    IF s = <<>> THEN 0
    ELSE 10 * NumberOf(SubSeq(s, 1, Len(s) - 1)) + DigitValue(s[Len(s)])

AllDigits(s) == s /= <<>> /\ \A i \in 1..Len(s) : s[i] \in Digits

\* new Date(text).getTime() on the model's date texts: a text of digits is a
\* date, the empty text and a text without any digit are not
DateOf(text) == IF AllDigits(text) THEN NumberOf(text) ELSE NaN

\* dayjs(text, format) for a format of one numeric token: the token takes
\* the first run of digits of the text; no digit, no date
RECURSIVE DigitRun(_)
DigitRun(s) ==
    IF s = <<>> THEN <<>>
    ELSE IF Head(s) \in Digits
         THEN <<Head(s)>> \o (IF Len(s) > 1 /\ s[2] \in Digits
                              THEN DigitRun(Tail(s)) ELSE <<>>)
         ELSE DigitRun(Tail(s))

dayjsOf(text) ==
    IF DigitRun(text) = <<>> THEN NaN ELSE NumberOf(DigitRun(text))

\* dateText as the parser gets it: dateText.replace(".", "").trim() for
\* Atomix with a date format
normalisedDate(src, text) ==
    IF src.dateFormat /\ text /= <<>> /\ src.name = "Atomix"
    THEN Trim(RemoveFirst(text, "."))
    ELSE text

\* the "Parse date" step of scrapeArticle
parsedDate(src, text, clock) ==
    IF src.dateFormat /\ text /= <<>>
    THEN IF dayjsOf(normalisedDate(src, text)) /= NaN
         THEN dayjsOf(normalisedDate(src, text))
         ELSE clock
    ELSE DateOf(text)

\* the sources an article is scraped for; source.url is sourceUrl
Sources == [name : {"Atomix", "Other"}, dateFormat : BOOLEAN]

\* raw texts of the element a date selector can match
DateTexts == { <<>>, <<" ">>, <<"x">>, <<"1", "2">>, <<" ", "7", "\n">>,
               <<"1", "2", ".">>, <<".", ".">> }

DateChains == {<<>>} \cup {<<a>> : a \in DateTexts}
                     \cup {<<a, b>> : a \in DateTexts, b \in DateTexts}

Clock == {100, 101}

\* raw texts of the elements the title, author and summary selectors match
FieldChains == { <<>>, <<<<" ", "t", " ">>>>, <<<<" ">>, <<"u">>>>,
                 <<<<"t">>, <<"u">>>>, <<<<>>, <<"\n">>, <<"u", " ">>, <<"t">>>> }

\* per content selector, the html of the elements it matches
ContentChains ==
    { <<>>,
      << <<<<" ", "b", " ">>, <<" ">>, <<"c">>>> >>,
      << <<<<" ">>>>, <<<<"d">>>> >>,
      << <<>>, <<<<"d">>>>, <<<<"c">>>> >>,
      << <<<<"b">>>>, <<<<"c">>>> >> }

\* per entryId selector, the class attribute of the first element it matches
ClassChains ==
    { <<>>,
      << <<>> >>,
      << POST \o <<"7">> >>,
      << <<"x", " ">> \o POST \o <<"1", "2", " ", "y">> >>,
      << POST >>,
      << POST \o <<"a", "b">> >>,
      << POST \o <<"1", "-", "2">> >>,
      << POST \o <<" ">> \o POST \o <<"3">> >>,
      << <<"x">>, POST \o <<"5">> >>,
      << <<"p", "o", "s", "t">> >> }

\* article URLs
ArticleUrls ==
    { sourceUrl \o <<"/", "n", "1">>,
      sourceUrl \o <<"/", "n", "2", "/">>,
      sourceUrl \o <<"/", "n", "-", "3">>,
      sourceUrl \o <<"/", "n", "4", "?", "u", "=", "5">> }

Page(date, title, author, summary, html, class) ==
    [date |-> date, title |-> title, author |-> author, summary |-> summary,
     content |-> html, class |-> class]

\* the article pages of the site: what each selector chain of the source
\* finds in the page
Pages ==
    {Page(d, <<<<"t">>>>, <<>>, <<>>, <<>>, <<>>) : d \in DateChains}
    \cup {Page(<<<<"1", "2">>>>, t, a, s, <<>>, <<>>) :
              t \in FieldChains, a \in FieldChains, s \in FieldChains}
    \cup {Page(<<<<"1", "2">>>>, <<<<"t">>>>, <<>>, <<>>, h, c) :
              h \in ContentChains, c \in ClassChains}

\* calls of scrapeArticle made for one article
MaxCalls == 2

NoArticle ==
    [entryId |-> <<>>, title |-> <<>>, author |-> <<>>, content |-> <<>>,
     summary |-> <<>>, link |-> <<>>, date |-> 0]

InitScrape ==
    /\ scraped = "none"
    /\ source = [name |-> "Other", dateFormat |-> FALSE]
    /\ dateText = <<>>
    /\ now = 0
    /\ article = NoArticle
    /\ articleUrl = <<>>
    /\ markup = Page(<<>>, <<>>, <<>>, <<>>, <<>>, <<>>)
    /\ fetched = FALSE
    /\ calls = 0
    /\ previous = [scraped |-> "none", article |-> NoArticle, now |-> 0]
    /\ requests = 0
    /\ parsedText = <<>>

\* axios.get rejects: the outer catch returns null
ScrapeArticleFetchFails(url, src, pg) ==
    /\ calls < MaxCalls
    /\ scraped' = "null"
    /\ fetched' = FALSE
    /\ requests' = 1
    /\ source' = src
    /\ articleUrl' = url
    /\ markup' = pg
    /\ calls' = calls + 1
    /\ previous' = [scraped |-> scraped, article |-> article, now |-> now]
    /\ UNCHANGED <<dateText, now, article, parsedText>>
    /\ UNCHANGED <<linkVars, convVars, jobVars, dbVars, syncVars, appVars>>

\* the page is retrieved and the article is built from it
ScrapeArticle(url, src, pg, clock) ==
    /\ calls < MaxCalls
    /\ scraped' = "article"
    /\ fetched' = TRUE
    /\ requests' = 1
    /\ source' = src
    /\ articleUrl' = url
    /\ markup' = pg
    /\ calls' = calls + 1
    /\ previous' = [scraped |-> scraped, article |-> article, now |-> now]
    /\ dateText' = getTextFromSelectors(pg.date)
    /\ parsedText' = normalisedDate(src, dateText')
    /\ now' = clock
    /\ article' = [entryId |-> entryIdOf(url, src, pg.class),
                   title |-> getTextFromSelectors(pg.title),
                   author |-> getTextFromSelectors(pg.author),
                   content |-> getContentFromSelectors(pg.content),
                   summary |-> getTextFromSelectors(pg.summary),
                   link |-> url,
                   date |-> parsedDate(src, dateText', clock)]
    /\ UNCHANGED <<linkVars, convVars, jobVars, dbVars, syncVars, appVars>>

\* the first call scrapes any article of the site; a later call (a later run)
\* scrapes the same url for the same source, and the site serves the same page
NextScrape ==
    \/ /\ calls = 0
       /\ \E url \in ArticleUrls, src \in Sources, pg \in Pages :
              ScrapeArticleFetchFails(url, src, pg)
    \/ /\ calls = 0
       /\ \E url \in ArticleUrls, src \in Sources, pg \in Pages, clock \in Clock :
              ScrapeArticle(url, src, pg, clock)
    \/ /\ calls > 0
       /\ ScrapeArticleFetchFails(articleUrl, source, markup)
    \/ /\ calls > 0
       /\ \E clock \in Clock : ScrapeArticle(articleUrl, source, markup, clock)

\* C7: the date of a returned article is a valid point in time; empty or
\* unparsable date text, with or without a date format, gives the current
\* timestamp.
C7_DateAlwaysValid ==
    scraped = "article" =>
        /\ article.date /= NaN
        /\ dateText = <<>> => article.date = now

\* the output of every alternative of a text selector chain
textOutputs(chain) == [i \in 1..Len(chain) |-> Trim(chain[i])]

\* the output of every alternative of the content selector chain
contentOutputs(chain) ==
    [i \in 1..Len(chain) |-> Join(contentsOf(chain[i]), <<"\n", "\n">>)]

\* alternative k is the first one with output
FirstWithOutput(outputs, k) ==
    /\ outputs[k] /= <<>>
    /\ \A j \in 1..(k - 1) : outputs[j] = <<>>

FirstMatchWins(outputs, value) ==
    /\ \A k \in 1..Len(outputs) :
           FirstWithOutput(outputs, k) => value = outputs[k]
    /\ (\A k \in 1..Len(outputs) : outputs[k] = <<>>) => value = <<>>

\* C13: the value of a field is the output of the first alternative of its
\* selector chain that yields non-empty output, whatever later alternatives
\* yield; it is the empty string when no alternative yields output.
C13_FirstMatchWins ==
    scraped = "article" =>
        /\ FirstMatchWins(textOutputs(markup.title), article.title)
        /\ FirstMatchWins(textOutputs(markup.author), article.author)
        /\ FirstMatchWins(textOutputs(markup.summary), article.summary)
        /\ FirstMatchWins(textOutputs(markup.date), dateText)
        /\ FirstMatchWins(contentOutputs(markup.content), article.content)

\* the title comes from an alternative after two without output, and a later
\* alternative with another output was not consulted
C13_Witness ==
    /\ scraped = "article"
    /\ \E k \in 3..Len(markup.title) :
           /\ FirstWithOutput(textOutputs(markup.title), k)
           /\ article.title = textOutputs(markup.title)[k]
           /\ \E m \in (k + 1)..Len(markup.title) :
                  textOutputs(markup.title)[m] \notin {<<>>, article.title}

\* C14: scrapeArticle returns null only when the retrieval of the page
\* fails; when the page is retrieved an article is returned in which a field
\* whose selectors match nothing is empty, an identity that is not found is
\* empty and an unparsable date is the default (a valid point in time).
C14_NullOnlyOnRetrievalFailure ==
    /\ scraped = "null" => ~fetched
    /\ (calls > 0 /\ fetched) =>
           /\ scraped = "article"
           /\ (\A k \in 1..Len(markup.title) : Trim(markup.title[k]) = <<>>)
                  => article.title = <<>>
           /\ (\A k \in 1..Len(markup.content) :
                   contentsOf(markup.content[k]) = <<>>)
                  => article.content = <<>>
           /\ article.date /= NaN

\* C27: scrapeArticle retrieves the page through the retrying fetch: it
\* returns null only when as many requests as the configured number of
\* attempts have failed, not after a single failed request.
C27_NullOnlyAfterRetries ==
    scraped = "null" => requests = retries

\* a text without the period characters at its end
RECURSIVE WithoutTrailingPeriods(_)
WithoutTrailingPeriods(s) ==
    IF s /= <<>> /\ s[Len(s)] = "."
    THEN WithoutTrailingPeriods(SubSeq(s, 1, Len(s) - 1))
    ELSE s

\* C31: for Atomix with a date format the date text is parsed without the
\* period characters at its end, all of them removed and nothing else; for
\* every other source the date text is parsed as it is.
C31_TrailingPeriodsStripped ==
    scraped = "article" =>
        parsedText = IF source.name = "Atomix" /\ source.dateFormat
                     THEN WithoutTrailingPeriods(dateText)
                     ELSE dateText

\* C32: every article scrapeArticle returns has a non-empty entryId, also
\* for a url that ends with "/" and markup without a usable post- class.
C32_EntryIdNeverEmpty ==
    scraped = "article" => article.entryId /= <<>>

RECURSIVE ClassTokens(_)
ClassTokens(classNames) ==
    IF classNames = <<>> THEN <<>>
    ELSE Split(Head(classNames), " ") \o ClassTokens(Tail(classNames))

\* a class token "post-<digits>"
IsPostToken(t) == StartsWith(t, POST) /\ AllDigits(SubSeq(t, Len(POST) + 1, Len(t)))

PostSuffix(t) == SubSeq(t, Len(POST) + 1, Len(t))

\* C16: with a class token "post-<number>" on the element found, entryId is
\* the number, or for the source named Atomix "<base URL>/?p=<number>", and
\* the URL fallback is not used; a "post-" token whose suffix is empty or not
\* a number produces no id.
C16_ClassDerivedId ==
    scraped = "article" =>
        IF SelectSeq(ClassTokens(markup.class), IsPostToken) /= <<>>
        THEN article.entryId =
                 IF source.name = "Atomix"
                 THEN sourceUrl \o QUERY_P \o
                      PostSuffix(Head(SelectSeq(ClassTokens(markup.class), IsPostToken)))
                 ELSE PostSuffix(Head(SelectSeq(ClassTokens(markup.class), IsPostToken)))
        ELSE article.entryId = urlEntryId(articleUrl)

\* the path of a url: the url without its query string
PathOf(url) == Split(url, "?")[1]

FinalPathSegment(url) == Split(PathOf(url), "/")[Len(Split(PathOf(url), "/"))]

\* C17: when no class-based id is found, entryId is the final path segment
\* of the article url without its non-alphanumeric characters.
C17_UrlFallback ==
    (scraped = "article" /\ classEntryId(source, markup.class) = <<>>) =>
        article.entryId =
            SelectSeq(FinalPathSegment(articleUrl), LAMBDA c : c \in Letters \cup Digits)


(***************************************************************************)
(* NotionClient.createPage: conversion of the entry's HTML to blocks.      *)
(* A node of the parsed tree is a record: tag ("#text" for a TextNode),    *)
(* text (a TextNode's text), attr (href of A, src of IMG, <<>> if absent)  *)
(* and kids (childNodes).                                                  *)
(***************************************************************************)
Text(t) == [tag |-> "#text", text |-> t, attr |-> <<>>, kids |-> <<>>]
Elem(tag, attr, kids) == [tag |-> tag, text |-> <<>>, attr |-> attr, kids |-> kids]

\* a RichText object; annotations default to absent (FALSE)
Span(c, linked, url) ==
    [content |-> c, linked |-> linked, url |-> url,
     bold |-> FALSE, italic |-> FALSE, underline |-> FALSE]

SPACE == Span(<<" ">>, FALSE, <<>>)

Paragraph(rich) == [type |-> "paragraph", rich_text |-> rich, url |-> <<>>]
Image(url) == [type |-> "image", rich_text |-> <<>>, url |-> url]

\* node.text of an element: the text of its descendants, in document order
RECURSIVE TextOf(_), TextOfAll(_)
TextOf(node) ==
    IF node.tag = "#text" THEN node.text ELSE TextOfAll(node.kids)

TextOfAll(kids) ==
    IF kids = <<>> THEN <<>> ELSE TextOf(Head(kids)) \o TextOfAll(Tail(kids))

LowerChar(c) ==
    CASE c = "Y" -> "y"
      [] c = "P" -> "p"
      [] OTHER -> c

\* String.prototype.toLocaleLowerCase
ToLower(s) == [i \in 1..Len(s) |-> LowerChar(s[i])]

\* the separator pushed when the last span does not end with a space
WithSeparator(rich) ==
    IF rich /= <<>> /\ ~EndsWith(rich[Len(rich)].content, <<" ">>)
    THEN Append(rich, SPACE)
    ELSE rich

\* the annotation an emphasis tag merges onto a span
Annotate(span, tag) ==
    IF tag \in {"B", "STRONG"} THEN [span EXCEPT !.bold = TRUE]
    ELSE IF tag \in {"I", "EM"} THEN [span EXCEPT !.italic = TRUE]
    ELSE IF tag = "U" THEN [span EXCEPT !.underline = TRUE]
    ELSE span

AnnotateAll(rich, tag) == [i \in 1..Len(rich) |-> Annotate(rich[i], tag)]

\* the forEach over paragraphRichText and the final push: rest are the spans
\* still to place, cur/len are currentRichText/currentLength
RECURSIVE splitParagraph_DropsOverflow(_, _, _, _)
splitParagraph_DropsOverflow(rest, cur, len, blocks) ==
    IF rest = <<>>
    THEN IF cur /= <<>> THEN Append(blocks, Paragraph(cur)) ELSE blocks
    ELSE IF len + Len(Head(rest).content) > MAX_RICH_TEXT_LENGTH
         THEN splitParagraph_DropsOverflow(Tail(rest), <<Head(rest)>>,
                  Len(Head(rest).content), blocks)
         ELSE splitParagraph_DropsOverflow(Tail(rest), Append(cur, Head(rest)),
                  len + Len(Head(rest).content), blocks)

RECURSIVE splitParagraph(_, _, _, _)
splitParagraph(rest, cur, len, blocks) ==
    IF rest = <<>>
    THEN IF cur /= <<>> THEN Append(blocks, Paragraph(cur)) ELSE blocks
    ELSE IF len + Len(Head(rest).content) > MAX_RICH_TEXT_LENGTH
         THEN splitParagraph(Tail(rest), <<Head(rest)>>,
                  Len(Head(rest).content), Append(blocks, Paragraph(cur)))
         ELSE splitParagraph(Tail(rest), Append(cur, Head(rest)),
                  len + Len(Head(rest).content), blocks)

\* case "P" after the children were visited
flushParagraph(paragraphRichText, blocks) ==
    IF Len(paragraphRichText) > 0
    THEN splitParagraph(paragraphRichText, <<>>, 0, blocks)
    ELSE blocks

\* case "A"
pushLink_AlwaysSeparates(node, rich) ==
    IF Trim(TextOf(node)) /= <<>>
    THEN Append(Append(Append(rich, SPACE),
                       Span(Trim(TextOf(node)), TRUE, node.attr)), SPACE)
    ELSE rich

pushLink(node, rich) ==
    IF Trim(TextOf(node)) /= <<>>
    THEN WithSeparator(Append(WithSeparator(rich),
                              Span(Trim(TextOf(node)), TRUE, node.attr)))
    ELSE rich

\* case "B", "STRONG", "I", "EM", "U" after the children were visited
pushEmphasis(tag, childRichText, rich) ==
    IF childRichText /= <<>>
       /\ ~EndsWith(childRichText[Len(childRichText)].content, <<" ">>)
    THEN Append(WithSeparator(rich) \o AnnotateAll(childRichText, tag), SPACE)
    ELSE WithSeparator(rich) \o AnnotateAll(childRichText, tag)

\* processNode(node, richTextArray): st is [rich |-> richTextArray,
\* blocks |-> contentBlocks], the two arrays the call may push to
RECURSIVE processNode(_, _), processChildren(_, _)
processNode(node, st) ==
    CASE node.tag = "#text" ->
            IF Trim(node.text) /= <<>>
            THEN [st EXCEPT !.rich = Append(@, Span(Trim(node.text), FALSE, <<>>))]
            ELSE st
      [] node.tag = "P" ->
            [st EXCEPT !.blocks =
                flushParagraph(
                    processChildren(node.kids, [st EXCEPT !.rich = <<>>]).rich,
                    processChildren(node.kids, [st EXCEPT !.rich = <<>>]).blocks)]
      [] node.tag = "A" ->
            [st EXCEPT !.rich = pushLink(node, @)]
      [] node.tag = "IMG" ->
            IF ToLower(node.attr) /= <<>>
            THEN [st EXCEPT !.blocks = Append(@, Image(ToLower(node.attr)))]
            ELSE st
      [] node.tag \in {"B", "STRONG", "I", "EM", "U"} ->
            [rich |-> pushEmphasis(node.tag,
                          processChildren(node.kids,
                              [st EXCEPT !.rich = <<>>]).rich,
                          st.rich),
             blocks |-> processChildren(node.kids,
                            [st EXCEPT !.rich = <<>>]).blocks]
      [] OTHER -> processChildren(node.kids, st)

\* childNodes.forEach((child) => processNode(child, richTextArray))
processChildren(kids, st) ==
    IF kids = <<>> THEN st
    ELSE processChildren(Tail(kids), processNode(Head(kids), st))

\* root.childNodes.forEach((child) => processNode(child)): every root child
\* gets a fresh richTextArray
RECURSIVE walkRoot_FlushesSpans(_, _)
walkRoot_FlushesSpans(kids, blocks) ==
    IF kids = <<>> THEN blocks
    ELSE walkRoot_FlushesSpans(Tail(kids),
             flushParagraph(
                 processNode(Head(kids), [rich |-> <<>>, blocks |-> blocks]).rich,
                 processNode(Head(kids), [rich |-> <<>>, blocks |-> blocks]).blocks))

RECURSIVE walkRoot(_, _)
walkRoot(kids, blocks) ==
    IF kids = <<>> THEN blocks
    ELSE walkRoot(Tail(kids),
                  processNode(Head(kids), [rich |-> <<>>, blocks |-> blocks]).blocks)

(***************************************************************************)
(* The entries converted: parsed content trees.                            *)
(***************************************************************************)
TextNodes ==
    { Text(<<"a">>), Text(<<"a", "b", " ">>), Text(<<" ", "b">>),
      Text(<<" ">>), Text(<<"a", "b", "c", "d">>) }

Anchors ==
    { Elem("A", <<"u">>, <<Text(<<"x">>)>>),
      Elem("A", <<"u">>, <<Text(<<" ">>)>>),
      Elem("A", <<>>, <<Text(<<" ", "x">>), Elem("B", <<>>, <<Text(<<"y">>)>>)>>) }

Images == { Elem("IMG", <<"h", "/", "Y">>, <<>>), Elem("IMG", <<>>, <<>>) }

Emphasis ==
    {Elem(t, <<>>, <<Text(<<"a">>)>>) : t \in {"B", "STRONG", "I", "EM", "U"}}
    \cup { Elem("B", <<>>, <<Text(<<"a", "b", " ">>)>>),
           Elem("B", <<>>, <<>>),
           Elem("I", <<>>, <<Elem("B", <<>>, <<Text(<<"a", "b">>)>>)>>),
           Elem("U", <<>>, <<Elem("A", <<"u">>, <<Text(<<"x">>)>>),
                             Text(<<"c">>)>>),
           Elem("EM", <<>>, <<Elem("IMG", <<"p">>, <<>>)>>) }

Inline == TextNodes \cup Anchors \cup Images \cup Emphasis

Paragraphs ==
    {Elem("P", <<>>, <<>>)}
    \cup {Elem("P", <<>>, <<a>>) : a \in Inline}
    \cup {Elem("P", <<>>, <<a, b>>) : a \in Inline, b \in Inline}
    \cup { Elem("P", <<>>, <<Text(<<"a">>),
                             Elem("B", <<>>, <<Elem("P", <<>>, <<Text(<<"b">>)>>)>>),
                             Text(<<"c">>)>>) }

TopLevel ==
    Paragraphs
    \cup Images
    \cup { Text(<<"a">>),
           Elem("DIV", <<>>, <<Text(<<"a">>), Elem("A", <<"u">>, <<Text(<<"x">>)>>)>>),
           Elem("DIV", <<>>, <<Elem("P", <<>>, <<Text(<<"a", "b">>)>>),
                               Elem("IMG", <<"p">>, <<>>)>>) }

\* the second top-level node of an entry's content, when there is one
Followers ==
    { Elem("P", <<>>, <<Text(<<"a", "b", "c", "d">>), Text(<<"a", "b", "c", "d">>)>>),
      Elem("P", <<>>, <<Text(<<"a">>)>>),
      Elem("IMG", <<"p">>, <<>>) }

Contents ==
    {<<>>}
    \cup {<<n>> : n \in TopLevel}
    \cup {<<n, m>> : n \in TopLevel, m \in Followers}

InitConvert ==
    /\ created = "none"
    /\ content = <<>>
    /\ contentBlocks = <<>>
    /\ children = <<>>

\* the token or the database id is not configured: return false before the
\* content is looked at
CreatePageNotConfigured ==
    /\ created = "none"
    /\ created' = "false"
    /\ UNCHANGED <<content, contentBlocks, children>>
    /\ UNCHANGED <<linkVars, scrapeVars, jobVars, dbVars, syncVars, appVars>>

\* the content is converted and notion.pages.create resolves: return true
CreatePage(doc) ==
    /\ created = "none"
    /\ content' = doc
    /\ contentBlocks' = walkRoot(doc, <<>>)
    /\ children' = Slice(contentBlocks', MAX_BODY_LENGTH)
    /\ created' = "true"
    /\ UNCHANGED <<linkVars, scrapeVars, jobVars, dbVars, syncVars, appVars>>

\* the content is converted and notion.pages.create rejects: return false
CreatePageRejected(doc) ==
    /\ created = "none"
    /\ content' = doc
    /\ contentBlocks' = walkRoot(doc, <<>>)
    /\ children' = Slice(contentBlocks', MAX_BODY_LENGTH)
    /\ created' = "false"
    /\ UNCHANGED <<linkVars, scrapeVars, jobVars, dbVars, syncVars, appVars>>

NextConvert ==
    \/ CreatePageNotConfigured
    \/ \E doc \in Contents : CreatePage(doc)
    \/ \E doc \in Contents : CreatePageRejected(doc)

(***************************************************************************)
(* Properties of the conversion.                                           *)
(***************************************************************************)
\* the text of a span list
RECURSIVE SpanText(_)
SpanText(rich) ==
    IF rich = <<>> THEN <<>> ELSE Head(rich).content \o SpanText(Tail(rich))

\* the text of the paragraph blocks of a block list, in emission order
RECURSIVE ParagraphText(_)
ParagraphText(blocks) ==
    IF blocks = <<>> THEN <<>>
    ELSE SpanText(Head(blocks).rich_text) \o ParagraphText(Tail(blocks))

NoWhitespace(s) == SelectSeq(s, LAMBDA c : c \notin WS)

RECURSIVE HasParagraph(_)
HasParagraph(kids) ==
    /\ kids /= <<>>
    /\ \/ Head(kids).tag = "P"
       \/ HasParagraph(Head(kids).kids)
       \/ HasParagraph(Tail(kids))

\* the content is one P element: every paragraph block comes from it
OneParagraph == Len(content) = 1 /\ content[1].tag = "P"

\* C8: every emitted paragraph block has total span text length of at most
\* MAX_RICH_TEXT_LENGTH, also for a paragraph with a single span longer than
\* the ceiling.
C8_BlockWithinCeiling ==
    \A i \in 1..Len(contentBlocks) :
        contentBlocks[i].type = "paragraph" =>
            Len(SpanText(contentBlocks[i].rich_text)) <= MAX_RICH_TEXT_LENGTH

C10_TruncatedToPrefix ==
    /\ Len(children) <= MAX_BODY_LENGTH
    /\ Len(children) <= Len(contentBlocks)
    /\ \A i \in 1..Len(children) : children[i] = contentBlocks[i]
    /\ Len(children) < Len(contentBlocks) => Len(children) = MAX_BODY_LENGTH

\* the tree walk produced more blocks than the ceiling allows
C10_Witness ==
    /\ created = "true"
    /\ Len(contentBlocks) > MAX_BODY_LENGTH
    /\ Len(children) = MAX_BODY_LENGTH

EmphasisTags == {"B", "STRONG", "I", "EM", "U"}

\* the content is one P element holding an emphasis element with text in it
\* and then a plain text node, short enough for one block
EmphasisThenText ==
    /\ OneParagraph
    /\ Len(content[1].kids) = 2
    /\ content[1].kids[1].tag \in EmphasisTags
    /\ Len(content[1].kids[1].kids) = 1
    /\ content[1].kids[1].kids[1].tag = "#text"
    /\ Trim(content[1].kids[1].kids[1].text) /= <<>>
    /\ content[1].kids[2].tag = "#text"
    /\ Trim(content[1].kids[2].text) /= <<>>
    /\ Len(TextOf(content[1])) <= MAX_RICH_TEXT_LENGTH

\* C11: an emphasis element inside a paragraph followed by a plain text node
\* gives one paragraph block of exactly two spans: the emphasised span and
\* one unannotated span holding the text node's content unchanged.
C11_EmphasisThenTextTwoSpans ==
    (created /= "none" /\ EmphasisThenText) =>
        /\ Len(contentBlocks) = 1
        /\ contentBlocks[1].type = "paragraph"
        /\ Len(contentBlocks[1].rich_text) = 2
        /\ contentBlocks[1].rich_text[1] =
               Annotate(Span(Trim(content[1].kids[1].kids[1].text), FALSE, <<>>),
                        content[1].kids[1].tag)
        /\ contentBlocks[1].rich_text[2] =
               Span(content[1].kids[2].text, FALSE, <<>>)

IsImage(node) == node.tag = "IMG" /\ node.attr /= <<>>
IsPlainText(node) == node.tag = "#text" /\ Trim(node.text) /= <<>>

\* there is a block of type first before a block of type second
BlockBefore(first, second) ==
    \E i \in 1..Len(contentBlocks), j \in 1..Len(contentBlocks) :
        /\ i < j
        /\ contentBlocks[i].type = first
        /\ contentBlocks[j].type = second

\* C12: an image with a source URL yields an image block at its
\* document-order position: the block of the text before it comes before the
\* image block and the block of the text after it comes after, also when the
\* image is a child of a paragraph.
C12_ImageAtDocumentOrder ==
    (created /= "none" /\ OneParagraph /\ Len(content[1].kids) = 2) =>
        /\ (IsPlainText(content[1].kids[1]) /\ IsImage(content[1].kids[2]))
               => BlockBefore("paragraph", "image")
        /\ (IsImage(content[1].kids[1]) /\ IsPlainText(content[1].kids[2]))
               => BlockBefore("image", "paragraph")

\* the src attributes of the image elements of a tree
RECURSIVE ImageSources(_)
ImageSources(node) ==
    IF node.tag = "IMG" THEN {node.attr}
    ELSE UNION {ImageSources(node.kids[i]) : i \in 1..Len(node.kids)}

\* C28: the image block emitted for an image element refers to the URL of
\* the element's src attribute, character for character.
C28_ImageUrlIsSrc ==
    \A i \in 1..Len(contentBlocks) :
        contentBlocks[i].type = "image" =>
            \E n \in 1..Len(content) :
                contentBlocks[i].url \in ImageSources(content[n])

\* the spans with text that the tree of a node is to give, with the flags of
\* all the emphasis elements around each: a text node or a link with text
\* gives a span when a paragraph takes it up
RECURSIVE ExpectedSpans(_, _)
ExpectedSpans(node, inParagraph) ==
    CASE node.tag = "#text" ->
            IF inParagraph /\ Trim(node.text) /= <<>>
            THEN {Span(Trim(node.text), FALSE, <<>>)}
            ELSE {}
      [] node.tag = "A" ->
            IF inParagraph /\ Trim(TextOf(node)) /= <<>>
            THEN {Span(Trim(TextOf(node)), TRUE, node.attr)}
            ELSE {}
      [] node.tag = "IMG" -> {}
      [] node.tag = "P" ->
            UNION {ExpectedSpans(node.kids[i], TRUE) : i \in 1..Len(node.kids)}
      [] node.tag \in EmphasisTags ->
            {Annotate(sp, node.tag) :
                sp \in UNION {ExpectedSpans(node.kids[i], inParagraph) :
                                 i \in 1..Len(node.kids)}}
      [] OTHER ->
            UNION {ExpectedSpans(node.kids[i], inParagraph) :
                      i \in 1..Len(node.kids)}

\* the spans of the blocks emitted
EmittedSpans ==
    UNION {{contentBlocks[i].rich_text[j] :
               j \in 1..Len(contentBlocks[i].rich_text)} :
           i \in 1..Len(contentBlocks)}

IsSeparator(span) == span.content = <<" ">>

\* C29: a span produced by the subtree of an emphasis element carries the
\* flag of that element, flags of nested emphasis elements add up, a link
\* span keeps its target, and a span outside the subtree gains no flag: the
\* spans with text of the blocks are those of the text nodes and links, each
\* with exactly the flags of the emphasis elements around it.
C29_EmphasisFlagsAccumulate ==
    created /= "none" =>
        {sp \in EmittedSpans : ~IsSeparator(sp)}
            = UNION {ExpectedSpans(content[n], FALSE) : n \in 1..Len(content)}

\* the link elements with text that a paragraph takes up
RECURSIVE AnchorsTaken(_, _), AnchorsTakenOfAll(_, _)
AnchorsTaken(node, inParagraph) ==
    CASE node.tag = "A" ->
            IF inParagraph /\ Trim(TextOf(node)) /= <<>> THEN <<node>> ELSE <<>>
      [] node.tag = "P" -> AnchorsTakenOfAll(node.kids, TRUE)
      [] OTHER -> AnchorsTakenOfAll(node.kids, inParagraph)

AnchorsTakenOfAll(kids, inParagraph) ==
    IF kids = <<>> THEN <<>>
    ELSE AnchorsTaken(Head(kids), inParagraph)
             \o AnchorsTakenOfAll(Tail(kids), inParagraph)

\* the link spans of a list of blocks, in emission order
RECURSIVE LinkSpans(_)
LinkSpans(blocks) ==
    IF blocks = <<>> THEN <<>>
    ELSE SelectSeq(Head(blocks).rich_text, LAMBDA sp : sp.linked)
             \o LinkSpans(Tail(blocks))

\* the link elements with text of the whole content
AnchorsOfContent == AnchorsTakenOfAll(content, FALSE)

\* C30: a link element with text gives exactly one span, with the link's
\* text and target; a link without text gives nothing; the span before a
\* link span ends in whitespace, the span after it is a separator, and no
\* two separator spans are adjacent in a span list.
C30_LinkSpanAndSeparators ==
    created /= "none" =>
        /\ Len(LinkSpans(contentBlocks)) = Len(AnchorsOfContent)
        /\ \A k \in 1..Len(LinkSpans(contentBlocks)) :
              \E a \in 1..Len(AnchorsOfContent) :
                  /\ LinkSpans(contentBlocks)[k].content
                        = Trim(TextOf(AnchorsOfContent[a]))
                  /\ LinkSpans(contentBlocks)[k].url = AnchorsOfContent[a].attr
        /\ \A i \in 1..Len(contentBlocks) :
              LET rich == contentBlocks[i].rich_text IN
              \A j \in 1..Len(rich) :
                  /\ (j > 1 /\ IsSeparator(rich[j]))
                         => ~IsSeparator(rich[j - 1])
                  /\ (j > 1 /\ rich[j].linked)
                         => EndsWith(rich[j - 1].content, <<" ">>)
                  /\ (j < Len(rich) /\ rich[j].linked)
                         => IsSeparator(rich[j + 1])

\* a link after an emphasis run, the separator the run left being the only
\* span between the two
C30_Witness ==
    /\ created /= "none"
    /\ contentBlocks /= <<>>
    /\ \E j \in 3..Len(contentBlocks[1].rich_text) :
          /\ contentBlocks[1].rich_text[j].linked
          /\ IsSeparator(contentBlocks[1].rich_text[j - 1])
          /\ contentBlocks[1].rich_text[j - 2].bold

\* C33: a paragraph block never has an empty span list, also when the
\* paragraph is split because of the length ceiling.
C33_NoEmptyParagraphBlock ==
    \A i \in 1..Len(contentBlocks) :
        contentBlocks[i].type = "paragraph" =>
            contentBlocks[i].rich_text /= <<>>

\* the texts of a set of spans
TextsOf(spans) == {sp.content : sp \in spans}

\* C34: paragraph blocks come from P elements only: without a P element
\* there is no paragraph block, and the texts of the spans emitted are those
\* of the text nodes and links inside P elements, so text, links and
\* emphasis outside every P element are in no block.
C34_OnlyParagraphsEmitText ==
    created /= "none" =>
        /\ ~HasParagraph(content) =>
              \A i \in 1..Len(contentBlocks) :
                  contentBlocks[i].type /= "paragraph"
        /\ TextsOf({sp \in EmittedSpans : ~IsSeparator(sp)})
              = TextsOf(UNION {ExpectedSpans(content[n], FALSE) :
                                  n \in 1..Len(content)})

\* a container with text and a link and no P element, then a paragraph: the
\* one block is the paragraph's and the link is in no block
C34_Witness ==
    /\ created /= "none"
    /\ Len(content) = 2
    /\ content[1].tag = "DIV"
    /\ ~HasParagraph(content[1].kids)
    /\ Len(AnchorsTakenOfAll(content[1].kids, TRUE)) = 1
    /\ content[2].tag = "P"
    /\ contentBlocks = <<Paragraph(<<Span(<<"a">>, FALSE, <<>>)>>)>>

(***************************************************************************)
(* Database (src/database/index.ts): the singleton around the mongoose     *)
(* connection.  connect() and disconnect() are asynchronous and are called *)
(* by the application, by both jobs and by the SIGINT handler, so calls    *)
(* overlap; readyState is mongoose's, which also moves it when the server  *)
(* is lost and found again.                                                *)
(***************************************************************************)
\* callers of the Database whose calls may overlap
MaxCallers == 2

\* mongoose.ConnectionStates
DISCONNECTED == 0
CONNECTED == 1
CONNECTING == 2
DISCONNECTING == 3

\* isConnectedToDb()
isConnectedToDb == isConnected /\ readyState = CONNECTED

InitDatabase ==
    /\ readyState = DISCONNECTED
    /\ listening = FALSE
    /\ lost = FALSE
    /\ dbCalls = [c \in 1..MaxCallers |-> "idle"]
    /\ dbEvent = "none"
    /\ wasConnected = FALSE

notDbVars == <<linkVars, scrapeVars, convVars, syncVars, appVars>>

\* connect() is called: it returns at once when isConnected is set, else it
\* awaits mongoose.connect
DbConnect(c) ==
    /\ dbCalls[c] = "idle"
    /\ wasConnected' = isConnectedToDb
    /\ IF isConnected
       THEN /\ dbEvent' = "connect returned"
            /\ UNCHANGED <<readyState, dbCalls>>
       ELSE /\ dbEvent' = "connect awaits"
            /\ readyState' = IF readyState = CONNECTED
                             THEN CONNECTED ELSE CONNECTING
            /\ dbCalls' = [dbCalls EXCEPT ![c] = "connecting"]
    /\ UNCHANGED <<isConnected, listening, lost>>
    /\ UNCHANGED <<isRunning, runs, inFlight, browser, store>>
    /\ UNCHANGED notDbVars

\* mongoose.connect resolves: isConnected = true, the handlers are set
DbConnectResolves(c) ==
    /\ dbCalls[c] = "connecting"
    /\ readyState' = CONNECTED
    /\ isConnected' = TRUE
    /\ listening' = TRUE
    /\ dbCalls' = [dbCalls EXCEPT ![c] = "idle"]
    /\ dbEvent' = "connect resolved"
    /\ UNCHANGED <<lost, wasConnected>>
    /\ UNCHANGED <<isRunning, runs, inFlight, browser, store>>
    /\ UNCHANGED notDbVars

\* mongoose.connect rejects: connect() logs and rethrows
DbConnectRejects(c) ==
    /\ dbCalls[c] = "connecting"
    /\ readyState' = IF readyState = CONNECTING THEN DISCONNECTED
                     ELSE readyState
    /\ dbCalls' = [dbCalls EXCEPT ![c] = "idle"]
    /\ dbEvent' = "connect rejected"
    /\ UNCHANGED <<isConnected, listening, lost, wasConnected>>
    /\ UNCHANGED <<isRunning, runs, inFlight, browser, store>>
    /\ UNCHANGED notDbVars

\* disconnect() is called: it returns at once when isConnected is not set,
\* else it awaits mongoose.disconnect, which starts closing the connection
DbDisconnect(c) ==
    /\ dbCalls[c] = "idle"
    /\ wasConnected' = isConnectedToDb
    /\ IF ~isConnected
       THEN /\ dbEvent' = "disconnect returned"
            /\ UNCHANGED <<readyState, dbCalls>>
       ELSE /\ dbEvent' = "disconnect awaits"
            /\ readyState' = DISCONNECTING
            /\ dbCalls' = [dbCalls EXCEPT ![c] = "disconnecting"]
    /\ UNCHANGED <<isConnected, listening, lost>>
    /\ UNCHANGED <<isRunning, runs, inFlight, browser, store>>
    /\ UNCHANGED notDbVars

\* mongoose.disconnect resolves: the connection is closed ("disconnected" is
\* emitted), isConnected = false
DbDisconnectResolves(c) ==
    /\ dbCalls[c] = "disconnecting"
    /\ readyState' = DISCONNECTED
    /\ isConnected' = FALSE
    /\ lost' = FALSE
    /\ dbCalls' = [dbCalls EXCEPT ![c] = "idle"]
    /\ dbEvent' = "disconnect resolved"
    /\ UNCHANGED <<listening, wasConnected>>
    /\ UNCHANGED <<isRunning, runs, inFlight, browser, store>>
    /\ UNCHANGED notDbVars

\* mongoose.disconnect rejects: disconnect() logs and rethrows; the
\* connection is open as before or is left closing
DbDisconnectRejects(c) ==
    /\ dbCalls[c] = "disconnecting"
    /\ readyState \in {CONNECTED, DISCONNECTING}
    /\ readyState' \in {CONNECTED, DISCONNECTING}
    /\ dbCalls' = [dbCalls EXCEPT ![c] = "idle"]
    /\ dbEvent' = "disconnect rejected"
    /\ UNCHANGED <<isConnected, listening, lost, wasConnected>>
    /\ UNCHANGED <<isRunning, runs, inFlight, browser, store>>
    /\ UNCHANGED notDbVars

\* the server is lost: mongoose emits "disconnected", whose handler clears
\* isConnected
DbDisconnected ==
    /\ readyState = CONNECTED
    /\ readyState' = DISCONNECTED
    /\ isConnected' = IF listening THEN FALSE ELSE isConnected
    /\ lost' = TRUE
    /\ dbEvent' = "disconnected"
    /\ UNCHANGED <<listening, dbCalls, wasConnected>>
    /\ UNCHANGED <<isRunning, runs, inFlight, browser, store>>
    /\ UNCHANGED notDbVars

\* the driver finds the server again: mongoose emits "reconnected", whose
\* handler sets isConnected
DbReconnected ==
    /\ lost
    /\ readyState = DISCONNECTED
    /\ readyState' = CONNECTED
    /\ isConnected' = IF listening THEN TRUE ELSE isConnected
    /\ lost' = FALSE
    /\ dbEvent' = "reconnected"
    /\ UNCHANGED <<listening, dbCalls, wasConnected>>
    /\ UNCHANGED <<isRunning, runs, inFlight, browser, store>>
    /\ UNCHANGED notDbVars

NextDatabase ==
    \/ \E c \in 1..MaxCallers : DbConnect(c)
    \/ \E c \in 1..MaxCallers : DbConnectResolves(c)
    \/ \E c \in 1..MaxCallers : DbConnectRejects(c)
    \/ \E c \in 1..MaxCallers : DbDisconnect(c)
    \/ \E c \in 1..MaxCallers : DbDisconnectResolves(c)
    \/ \E c \in 1..MaxCallers : DbDisconnectRejects(c)
    \/ DbDisconnected
    \/ DbReconnected

\* connect() has just returned to its caller
ConnectDone == dbEvent \in {"connect returned", "connect resolved"}

\* disconnect() has just returned to its caller
DisconnectDone == dbEvent \in {"disconnect returned", "disconnect resolved"}

\* C26 (a): when connect() has resolved, isConnectedToDb() is true
C26a_ConnectedAfterConnect == ConnectDone => isConnectedToDb

\* C26 (b): connect() on a connected database opens no second connection
C26b_NoSecondConnection ==
    (wasConnected /\ dbEvent \in {"connect returned", "connect awaits"})
        => dbEvent = "connect returned"

\* C26 (c): when disconnect() has resolved, isConnectedToDb() is false
C26c_DisconnectedAfterDisconnect == DisconnectDone => ~isConnectedToDb

\* C26 (d): disconnect() on a database that is not connected does nothing
C26d_DisconnectNoOp ==
    (~wasConnected /\ dbEvent \in {"disconnect returned", "disconnect awaits"})
        => dbEvent = "disconnect returned"

\* C26: the connection state of the Database: after connect() resolves
\* isConnectedToDb() is true, connect() on a connected database makes no
\* second connection, after disconnect() resolves isConnectedToDb() is
\* false, and disconnect() on a database that is not connected is a no-op.
C26_ConnectionState ==
    /\ C26a_ConnectedAfterConnect
    /\ C26b_NoSecondConnection
    /\ C26c_DisconnectedAfterDisconnect
    /\ C26d_DisconnectNoOp

(***************************************************************************)
(* CrawlerJob.runCrawler and the Entry collection.  Every invocation of    *)
(* runCrawler (a cron tick or runOnce) has its own locals, kept in runs;   *)
(* isRunning, the scraper's browser, the database connection and the store *)
(* are shared.  An entry of the store is a record of the fields the jobs   *)
(* read: entryId, link, created and the length of entryErrors.             *)
(***************************************************************************)
\* invocations of runCrawler
MaxTriggers == 2

\* config.sources
sources == <<"Atomix", "Other">>

\* what getArticleLinks returns for a source
LinkLists == { <<>>, <<"l1">>, <<"l1", "l2">> }

\* what scrapeArticle returns for a link: null, or an article with its
\* entryId ("" when none was derived) that passes or fails the validation
\* of the other required fields (content, entryDate)
EntryIds == {"", "e1", "e2"}

ArticleData == [entryId : EntryIds, link : {"l1", "l2"}, valid : BOOLEAN]

Entry(id, link, isCreated, errors) ==
    [entryId |-> id, link |-> link, created |-> isCreated, entryErrors |-> errors]

\* the collection as the process finds it
InitialStores ==
    { <<>>,
      <<Entry("e1", "l1", TRUE, 0)>>,
      <<Entry("e2", "l0", FALSE, 3), Entry("e3", "l3", FALSE, 0)>> }

NotStarted ==
    [pc |-> "none", src |-> 0, articleLinks |-> <<>>, idx |-> 0,
     articleData |-> [entryId |-> "", link |-> "", valid |-> FALSE],
     returned |-> <<>>, attempted |-> {}, completed |-> FALSE,
     articleError |-> FALSE, sourceError |-> FALSE,
     delayElapsed |-> TRUE, opened |-> FALSE]

InitJobs ==
    /\ isRunning = FALSE
    /\ runs = [r \in 1..MaxTriggers |-> NotStarted]
    /\ inFlight = 0
    /\ browser = FALSE
    /\ isConnected = FALSE
    /\ store \in InitialStores

\* if (this.isRunning) return
mayStart_NoGuard(running) == TRUE

mayStart(running) == ~running

\* EntryModel.findOne({ entryId })
findOne_FindsNothing(entries, id) == FALSE

findOne(entries, id) == \E i \in 1..Len(entries) : entries[i].entryId = id

\* newEntry.save() resolves: the required fields are there and the unique
\* indexes on entryId and link admit the document
saveAccepted(entries, data) ==
    /\ data.entryId /= ""
    /\ data.valid
    /\ \A i \in 1..Len(entries) :
           entries[i].entryId /= data.entryId /\ entries[i].link /= data.link

\* where the run continues once the article of the current link is done with
\* (the end of the loop body, a continue, or the catch of the article)
nextArticle_LeavesSource(run) ==
    [run EXCEPT !.pc = "source", !.src = @ + 1]

nextArticle(run) == [run EXCEPT !.pc = "article", !.idx = @ + 1]

\* a cron tick or runOnce invokes runCrawler; invocations come in order
Trigger(r) ==
    /\ runs[r].pc = "none"
    /\ \A q \in 1..(r - 1) : runs[q].pc /= "none"
    /\ IF mayStart(isRunning)
       THEN /\ isRunning' = TRUE
            /\ runs' = [runs EXCEPT ![r].pc =
                            IF isConnectedToDb THEN "source" ELSE "connect",
                                    ![r].src = 1]
       ELSE /\ runs' = [runs EXCEPT ![r].pc = "skipped"]
            /\ UNCHANGED isRunning
    /\ UNCHANGED <<inFlight, browser, isConnected, store>>
    /\ UNCHANGED <<linkVars, scrapeVars, convVars, dbVars, syncVars, appVars>>

\* await database.connect() resolves
Connect(r) ==
    /\ runs[r].pc = "connect"
    /\ isConnected' = TRUE
    /\ readyState' = CONNECTED
    /\ listening' = TRUE
    /\ runs' = [runs EXCEPT ![r].pc = "source"]
    /\ UNCHANGED <<isRunning, inFlight, browser, store>>
    /\ UNCHANGED <<lost, dbCalls, dbEvent, wasConnected>>
    /\ UNCHANGED <<linkVars, scrapeVars, convVars, syncVars, appVars>>

\* await database.connect() rejects: the outer catch, then finally
ConnectFails(r) ==
    /\ runs[r].pc = "connect"
    /\ runs' = [runs EXCEPT ![r].pc = "finally"]
    /\ UNCHANGED <<isRunning, inFlight, browser, isConnected, store>>
    /\ UNCHANGED <<linkVars, scrapeVars, convVars, dbVars, syncVars, appVars>>

\* for (const source of config.sources): the next source, whose listing is
\* fetched, or the end of the loop and the completion log
NextSource(r) ==
    /\ runs[r].pc = "source"
    /\ IF runs[r].src <= Len(sources)
       THEN /\ runs' = [runs EXCEPT ![r].pc = "links"]
            /\ inFlight' = inFlight + 1
       ELSE /\ runs' = [runs EXCEPT ![r].pc = "close", ![r].completed = TRUE]
            /\ UNCHANGED inFlight
    /\ UNCHANGED <<isRunning, browser, isConnected, store>>
    /\ UNCHANGED <<linkVars, scrapeVars, convVars, dbVars, syncVars, appVars>>

\* getArticleLinks resolves with ls; links are only found with a browser
LinksReturned(r, ls, launched) ==
    /\ runs[r].pc = "links"
    /\ ls /= <<>> => launched
    /\ browser' = (browser \/ launched)
    /\ inFlight' = inFlight - 1
    /\ runs' = [runs EXCEPT ![r].pc = "article", ![r].articleLinks = ls,
                            ![r].idx = 1, ![r].returned = Append(@, ls),
                            ![r].opened = (@ \/ launched)]
    /\ UNCHANGED <<isRunning, isConnected, store>>
    /\ UNCHANGED <<linkVars, scrapeVars, convVars, dbVars, syncVars, appVars>>

\* getArticleLinks rejects (page.close() in its finally): the catch of the
\* source
LinksThrows(r) ==
    /\ runs[r].pc = "links"
    /\ browser' = TRUE
    /\ inFlight' = inFlight - 1
    /\ runs' = [runs EXCEPT ![r].pc = "source", ![r].src = @ + 1,
                            ![r].returned = Append(@, <<>>),
                            ![r].sourceError = TRUE,
                            ![r].opened = TRUE]
    /\ UNCHANGED <<isRunning, isConnected, store>>
    /\ UNCHANGED <<linkVars, scrapeVars, convVars, dbVars, syncVars, appVars>>

\* for (const link of articleLinks): the next link, whose article is fetched,
\* or the end of the loop and the next source
NextLink(r) ==
    /\ runs[r].pc = "article"
    /\ IF runs[r].idx <= Len(runs[r].articleLinks)
       THEN /\ runs' = [runs EXCEPT ![r].pc = "scrape",
                           ![r].attempted = @ \cup {<<runs[r].src, runs[r].idx>>},
                           ![r].delayElapsed = FALSE]
            /\ inFlight' = inFlight + 1
       ELSE /\ runs' = [runs EXCEPT ![r].pc = "source", ![r].src = @ + 1]
            /\ UNCHANGED inFlight
    /\ UNCHANGED <<isRunning, browser, isConnected, store>>
    /\ UNCHANGED <<linkVars, scrapeVars, convVars, dbVars, syncVars, appVars>>

\* scrapeArticle resolves with null: continue
ScrapedNull(r) ==
    /\ runs[r].pc = "scrape"
    /\ inFlight' = inFlight - 1
    /\ runs' = [runs EXCEPT ![r] = nextArticle(@)]
    /\ UNCHANGED <<isRunning, browser, isConnected, store>>
    /\ UNCHANGED <<linkVars, scrapeVars, convVars, dbVars, syncVars, appVars>>

\* scrapeArticle resolves with an article
Scraped(r, data) ==
    /\ runs[r].pc = "scrape"
    /\ data.link = runs[r].articleLinks[runs[r].idx]
    /\ inFlight' = inFlight - 1
    /\ runs' = [runs EXCEPT ![r].pc = "find", ![r].articleData = data]
    /\ UNCHANGED <<isRunning, browser, isConnected, store>>
    /\ UNCHANGED <<linkVars, scrapeVars, convVars, dbVars, syncVars, appVars>>

\* findOne resolves: continue when the entry exists, else go on to save it
FindEntry(r) ==
    /\ runs[r].pc = "find"
    /\ runs' = [runs EXCEPT ![r] =
                   IF findOne(store, runs[r].articleData.entryId)
                   THEN nextArticle(@)
                   ELSE [@ EXCEPT !.pc = "save"]]
    /\ UNCHANGED <<isRunning, inFlight, browser, isConnected, store>>
    /\ UNCHANGED <<linkVars, scrapeVars, convVars, dbVars, syncVars, appVars>>

\* findOne rejects: the catch of the article
FindThrows(r) ==
    /\ runs[r].pc = "find"
    /\ runs' = [runs EXCEPT ![r] = nextArticle([@ EXCEPT !.articleError = TRUE])]
    /\ UNCHANGED <<isRunning, inFlight, browser, isConnected, store>>
    /\ UNCHANGED <<linkVars, scrapeVars, convVars, dbVars, syncVars, appVars>>

\* newEntry.save() resolves: the entry is stored with created: false and no
\* entryErrors; the delay follows
SaveEntry(r) ==
    /\ runs[r].pc = "save"
    /\ saveAccepted(store, runs[r].articleData)
    /\ store' = Append(store, Entry(runs[r].articleData.entryId,
                                     runs[r].articleData.link, FALSE, 0))
    /\ runs' = [runs EXCEPT ![r].pc = "delay"]
    /\ UNCHANGED <<isRunning, inFlight, browser, isConnected>>
    /\ UNCHANGED <<linkVars, scrapeVars, convVars, dbVars, syncVars, appVars>>

\* newEntry.save() rejects (validation, duplicate key, connection): the
\* catch of the article
SaveThrows(r) ==
    /\ runs[r].pc = "save"
    /\ runs' = [runs EXCEPT ![r] = nextArticle([@ EXCEPT !.articleError = TRUE])]
    /\ UNCHANGED <<isRunning, inFlight, browser, isConnected, store>>
    /\ UNCHANGED <<linkVars, scrapeVars, convVars, dbVars, syncVars, appVars>>

\* the delay after a saved article has elapsed
DelayElapsed(r) ==
    /\ runs[r].pc = "delay"
    /\ runs' = [runs EXCEPT ![r] = nextArticle([@ EXCEPT !.delayElapsed = TRUE])]
    /\ UNCHANGED <<isRunning, inFlight, browser, isConnected, store>>
    /\ UNCHANGED <<linkVars, scrapeVars, convVars, dbVars, syncVars, appVars>>

\* await this.scraper.close() resolves
CloseBrowser(r) ==
    /\ runs[r].pc = "close"
    /\ browser' = FALSE
    /\ runs' = [runs EXCEPT ![r].pc = "finally"]
    /\ UNCHANGED <<isRunning, inFlight, isConnected, store>>
    /\ UNCHANGED <<linkVars, scrapeVars, convVars, dbVars, syncVars, appVars>>

\* await this.scraper.close() rejects: the outer catch
CloseThrows(r) ==
    /\ runs[r].pc = "close"
    /\ browser
    /\ runs' = [runs EXCEPT ![r].pc = "finally"]
    /\ UNCHANGED <<isRunning, inFlight, browser, isConnected, store>>
    /\ UNCHANGED <<linkVars, scrapeVars, convVars, dbVars, syncVars, appVars>>

\* finally { this.isRunning = false }: the invocation returns and its locals
\* are gone
Finally(r) ==
    /\ runs[r].pc = "finally"
    /\ isRunning' = FALSE
    /\ runs' = [runs EXCEPT ![r] = [NotStarted EXCEPT !.pc = "done"]]
    /\ UNCHANGED <<inFlight, browser, isConnected, store>>
    /\ UNCHANGED <<linkVars, scrapeVars, convVars, dbVars, syncVars, appVars>>

\* the steps of an invocation that is under way
RunStep(r) ==
    \/ Connect(r)
    \/ ConnectFails(r)
    \/ NextSource(r)
    \/ \E ls \in LinkLists, launched \in BOOLEAN : LinksReturned(r, ls, launched)
    \/ LinksThrows(r)
    \/ NextLink(r)
    \/ ScrapedNull(r)
    \/ \E data \in ArticleData : Scraped(r, data)
    \/ FindEntry(r)
    \/ FindThrows(r)
    \/ SaveEntry(r)
    \/ SaveThrows(r)
    \/ DelayElapsed(r)
    \/ CloseBrowser(r)
    \/ CloseThrows(r)
    \/ Finally(r)

NextCrawl == \E r \in 1..MaxTriggers : Trigger(r) \/ RunStep(r)

(***************************************************************************)
(* Properties of the crawler run.                                          *)
(***************************************************************************)
\* every link of every source gone through so far was taken up
AllAttempted(run) ==
    \A s \in 1..Len(run.returned) :
        \A i \in 1..Len(run.returned[s]) : <<s, i>> \in run.attempted

\* C18: an exception while an article is processed does not keep the
\* remaining links of the source from being processed, an exception while a
\* source is processed does not keep the remaining sources from being
\* processed, and the run reaches its completion step.
C18_FailureIsolation ==
    /\ [](\A r \in 1..MaxTriggers :
            /\ runs[r].pc = "source" =>
                   /\ Len(runs[r].returned) = runs[r].src - 1
                   /\ AllAttempted(runs[r])
            /\ (runs[r].pc \in {"close", "finally"} /\ runs[r].returned /= <<>>) =>
                   /\ Len(runs[r].returned) = Len(sources)
                   /\ AllAttempted(runs[r])
                   /\ runs[r].completed)
    /\ \A r \in 1..MaxTriggers :
           (runs[r].pc = "source") ~> runs[r].completed

\* a completed run in which the first source threw and, in the second one,
\* an article of two raised an exception
C18_Witness ==
    \E r \in 1..MaxTriggers :
        /\ runs[r].completed
        /\ runs[r].sourceError
        /\ runs[r].articleError
        /\ runs[r].returned = <<<<>>, <<"l1", "l2">>>>
        /\ runs[r].attempted = {<<2, 1>>, <<2, 2>>}

\* C19: an article whose entryId is stored is never written: the run does not
\* get to save it, every step leaves the stored entries as they are (a step
\* adds at most one entry, with a new entryId), and the store never holds two
\* entries with one entryId.
C19_NoWriteForStoredEntry ==
    /\ [](/\ \A r \in 1..MaxTriggers :
                runs[r].pc \in {"save", "delay"} =>
                    Len(SelectSeq(store,
                            LAMBDA e : e.entryId = runs[r].articleData.entryId))
                        = IF runs[r].pc = "save" THEN 0 ELSE 1
          /\ \A i \in 1..Len(store), j \in 1..Len(store) :
                store[i].entryId = store[j].entryId => i = j)
    /\ [][\/ store' = store
          \/ /\ Len(store') = Len(store) + 1
             /\ SubSeq(store', 1, Len(store)) = store
             /\ ~findOne(store, store'[Len(store')].entryId)
             /\ ~store'[Len(store')].created
             /\ store'[Len(store')].entryErrors = 0]_vars

\* the article of the first link had the entryId of a stored entry that is
\* marked created, and the run went on to the next link with the store
\* untouched
C19_Witness ==
    \E r \in 1..MaxTriggers :
        /\ runs[r].pc = "article"
        /\ runs[r].idx = 2
        /\ ~runs[r].articleError
        /\ runs[r].articleData.entryId = "e1"
        /\ runs[r].articleData.valid
        /\ store = <<Entry("e1", "l1", TRUE, 0)>>

Active == {r \in 1..MaxTriggers : runs[r].pc \notin {"none", "skipped", "done"}}

\* C21: after every article fetch of a run, whatever became of the article
\* (saved, already stored, not scraped, an error), the delay between articles
\* elapses before the run starts the next article fetch
C21_DelayAfterEveryFetch ==
    [][\A r \in 1..MaxTriggers :
          (runs[r].pc = "article" /\ runs'[r].pc = "scrape")
              => runs[r].delayElapsed]_vars

\* C24: a run that opened the browser session and has reached its end has
\* released it: the browser is closed and the handle is null again
C24_SessionReleased ==
    \A r \in 1..MaxTriggers :
        (runs[r].pc = "finally" /\ runs[r].opened) => ~browser

\* C20: never two fetches in flight: at most one invocation of runCrawler is
\* under way, it has at most one fetch in flight, and an invocation that came
\* while a run was under way was skipped without fetching anything.
C20_OneFetchAtATime ==
    /\ inFlight <= 1
    /\ Cardinality(Active) <= 1
    /\ isRunning <=> Active /= {}
    /\ \A r \in 1..MaxTriggers :
           runs[r].pc = "skipped" => runs[r] = [NotStarted EXCEPT !.pc = "skipped"]

\* a trigger was skipped while the run under way has a fetch in flight
C20_Witness ==
    /\ inFlight = 1
    /\ \E r \in 1..MaxTriggers : runs[r].pc = "skipped"
    /\ \E r \in 1..MaxTriggers : runs[r].pc = "scrape"

(***************************************************************************)
(* NotionSyncJob.runSync.  Every invocation (a cron tick or runOnce) has   *)
(* its own locals, kept in syncs; isRunning of the job, the database       *)
(* connection and the store are shared.  The documents of the batch are    *)
(* copies: a change reaches the store when entry.save() resolves.          *)
(***************************************************************************)
\* invocations of runSync
MaxSyncs == 2

\* config.notionSync.batchSize
batchSize == 2

\* if (entry.entryErrors.length >= 5)
maxEntryErrors == 5

NoAttempt == [entry |-> 0, failed |-> FALSE, before |-> 0, after |-> 0]

SyncNotStarted ==
    [pc |-> "none", batch |-> <<>>, picked |-> <<>>, idx |-> 0,
     doc |-> Entry("", "", FALSE, 0), success |-> FALSE, found |-> FALSE,
     last |-> NoAttempt]

InitSync ==
    /\ syncRunning = FALSE
    /\ syncs = [r \in 1..MaxSyncs |-> SyncNotStarted]
    /\ pageCreated = {store[i].entryId : i \in {j \in 1..Len(store) : store[j].created}}

\* EntryModel.find({ created: false })
toSync(entries) == {i \in 1..Len(entries) : ~entries[i].created}

\* .sort({ entryDate: -1 }).limit(batchSize): the dates are not in the
\* model, so the entries found come in any order
Batches(entries) ==
    LET found == toSync(entries)
        n == IF Cardinality(found) < batchSize
             THEN Cardinality(found) ELSE batchSize
    IN  {b \in [1..n -> found] :
            \A i \in 1..n : \A j \in 1..n : i /= j => b[i] /= b[j]}

tooManyErrors_AtOnce(n) == n >= 1

tooManyErrors(n) == n >= maxEntryErrors

\* entryErrors.push(errorMsg) and the test that follows it
pushError(doc) ==
    [doc EXCEPT !.entryErrors = @ + 1,
                !.created = (@ \/ tooManyErrors(doc.entryErrors + 1))]

\* entry.created = true; entry.entryErrors = []
markCreated(doc) == [doc EXCEPT !.created = TRUE, !.entryErrors = 0]

\* return of the try block when the connection test fails: the finally
\* block runs before the invocation returns
earlyReturn_SkipsFinally(run) == [SyncNotStarted EXCEPT !.pc = "done"]

earlyReturn(run) == [run EXCEPT !.pc = "finally"]

\* the attempt of the current entry is over; what it left in the store
attemptOver(run, entries) ==
    [run EXCEPT !.last = [entry |-> run.batch[run.idx],
                          failed |-> ~run.success,
                          before |-> run.last.before,
                          after |-> entries[run.batch[run.idx]].entryErrors]]

\* the catch of the entry has saved: the loop goes on with the next entry
afterCatch(run) == [run EXCEPT !.pc = "entry", !.idx = @ + 1]

\* a cron tick or runOnce invokes runSync; invocations come in order
SyncTrigger(r) ==
    /\ syncs[r].pc = "none"
    /\ \A q \in 1..(r - 1) : syncs[q].pc /= "none"
    /\ IF mayStart(syncRunning)
       THEN /\ syncRunning' = TRUE
            /\ syncs' = [syncs EXCEPT ![r].pc =
                            IF isConnectedToDb THEN "test" ELSE "connect"]
       ELSE /\ syncs' = [syncs EXCEPT ![r].pc = "skipped"]
            /\ UNCHANGED syncRunning
    /\ UNCHANGED pageCreated
    /\ UNCHANGED <<linkVars, scrapeVars, convVars, jobVars, dbVars, appVars>>

\* await database.connect() resolves
SyncConnect(r) ==
    /\ syncs[r].pc = "connect"
    /\ isConnected' = TRUE
    /\ readyState' = CONNECTED
    /\ listening' = TRUE
    /\ syncs' = [syncs EXCEPT ![r].pc = "test"]
    /\ UNCHANGED <<syncRunning, pageCreated>>
    /\ UNCHANGED <<isRunning, runs, inFlight, browser, store>>
    /\ UNCHANGED <<lost, dbCalls, dbEvent, wasConnected>>
    /\ UNCHANGED <<linkVars, scrapeVars, convVars, appVars>>

\* await database.connect() rejects: the outer catch, then finally
SyncConnectFails(r) ==
    /\ syncs[r].pc = "connect"
    /\ syncs' = [syncs EXCEPT ![r].pc = "finally"]
    /\ UNCHANGED <<syncRunning, pageCreated>>
    /\ UNCHANGED <<linkVars, scrapeVars, convVars, jobVars, dbVars, appVars>>

\* await this.notionClient.testConnection() resolves (it never rejects)
TestConnection(r, isNotionConnected) ==
    /\ syncs[r].pc = "test"
    /\ syncs' = [syncs EXCEPT ![r] =
                    IF isNotionConnected THEN [@ EXCEPT !.pc = "find"]
                    ELSE earlyReturn(@)]
    /\ UNCHANGED <<syncRunning, pageCreated>>
    /\ UNCHANGED <<linkVars, scrapeVars, convVars, jobVars, dbVars, appVars>>

\* the query resolves with the entries to sync
FindEntries(r, b) ==
    /\ syncs[r].pc = "find"
    /\ b \in Batches(store)
    /\ syncs' = [syncs EXCEPT ![r].pc = "entry", ![r].batch = b,
                              ![r].picked = [k \in 1..Len(b) |-> store[b[k]].created],
                              ![r].idx = 1, ![r].found = TRUE]
    /\ UNCHANGED <<syncRunning, pageCreated>>
    /\ UNCHANGED <<linkVars, scrapeVars, convVars, jobVars, dbVars, appVars>>

\* the query rejects: the outer catch
FindRejects(r) ==
    /\ syncs[r].pc = "find"
    /\ syncs' = [syncs EXCEPT ![r].pc = "finally"]
    /\ UNCHANGED <<syncRunning, pageCreated>>
    /\ UNCHANGED <<linkVars, scrapeVars, convVars, jobVars, dbVars, appVars>>

\* for (const entry of entriesToSync): the next entry, for which createPage
\* is called, or the end of the loop and the completion log
NextEntry(r) ==
    /\ syncs[r].pc = "entry"
    /\ syncs' = [syncs EXCEPT ![r] =
                    IF syncs[r].idx <= Len(syncs[r].batch)
                    THEN [syncs[r] EXCEPT
                             !.pc = "create",
                             !.doc = store[syncs[r].batch[syncs[r].idx]],
                             !.last = [NoAttempt EXCEPT !.before =
                                 store[syncs[r].batch[syncs[r].idx]].entryErrors]]
                    ELSE [syncs[r] EXCEPT !.pc = "finally"]]
    /\ UNCHANGED <<syncRunning, pageCreated>>
    /\ UNCHANGED <<linkVars, scrapeVars, convVars, jobVars, dbVars, appVars>>

\* createPage resolves (it never rejects): with true the document is marked
\* created and its errors are cleared, with false an error is pushed; save
\* is called next
CreatePageReturns(r, success) ==
    /\ syncs[r].pc = "create"
    /\ syncs' = [syncs EXCEPT ![r].pc = "save", ![r].success = success,
                              ![r].doc = IF success THEN markCreated(@)
                                         ELSE pushError(@)]
    /\ pageCreated' = IF success
                      THEN pageCreated \cup {syncs[r].doc.entryId}
                      ELSE pageCreated
    /\ UNCHANGED syncRunning
    /\ UNCHANGED <<linkVars, scrapeVars, convVars, jobVars, dbVars, appVars>>

\* entry.save() resolves in the try block: the delay follows
SaveResolves(r) ==
    /\ syncs[r].pc = "save"
    /\ store' = [store EXCEPT ![syncs[r].batch[syncs[r].idx]] = syncs[r].doc]
    /\ syncs' = [syncs EXCEPT ![r] = [attemptOver(@, store') EXCEPT !.pc = "delay"]]
    /\ UNCHANGED <<syncRunning, pageCreated>>
    /\ UNCHANGED <<isRunning, runs, inFlight, browser, isConnected>>
    /\ UNCHANGED <<linkVars, scrapeVars, convVars, dbVars, appVars>>

\* entry.save() rejects in the try block: the catch of the entry pushes an
\* error and calls save again
SaveRejects(r) ==
    /\ syncs[r].pc = "save"
    /\ syncs' = [syncs EXCEPT ![r].pc = "catchSave", ![r].doc = pushError(@)]
    /\ UNCHANGED <<syncRunning, pageCreated>>
    /\ UNCHANGED <<linkVars, scrapeVars, convVars, jobVars, dbVars, appVars>>

\* the delay after an entry has elapsed
SyncDelayElapsed(r) ==
    /\ syncs[r].pc = "delay"
    /\ syncs' = [syncs EXCEPT ![r].pc = "entry", ![r].idx = @ + 1]
    /\ UNCHANGED <<syncRunning, pageCreated>>
    /\ UNCHANGED <<linkVars, scrapeVars, convVars, jobVars, dbVars, appVars>>

\* entry.save() resolves in the catch of the entry
CatchSaveResolves(r) ==
    /\ syncs[r].pc = "catchSave"
    /\ store' = [store EXCEPT ![syncs[r].batch[syncs[r].idx]] = syncs[r].doc]
    /\ syncs' = [syncs EXCEPT ![r] = afterCatch(attemptOver(@, store'))]
    /\ UNCHANGED <<syncRunning, pageCreated>>
    /\ UNCHANGED <<isRunning, runs, inFlight, browser, isConnected>>
    /\ UNCHANGED <<linkVars, scrapeVars, convVars, dbVars, appVars>>

\* entry.save() rejects in the catch of the entry: the outer catch
CatchSaveRejects(r) ==
    /\ syncs[r].pc = "catchSave"
    /\ syncs' = [syncs EXCEPT ![r] = [attemptOver(@, store) EXCEPT !.pc = "finally"]]
    /\ UNCHANGED <<syncRunning, pageCreated>>
    /\ UNCHANGED <<linkVars, scrapeVars, convVars, jobVars, dbVars, appVars>>

\* finally { this.isRunning = false }: the invocation returns and its locals
\* are gone
SyncFinally(r) ==
    /\ syncs[r].pc = "finally"
    /\ syncRunning' = FALSE
    /\ syncs' = [syncs EXCEPT ![r] = [SyncNotStarted EXCEPT !.pc = "done"]]
    /\ UNCHANGED pageCreated
    /\ UNCHANGED <<linkVars, scrapeVars, convVars, jobVars, dbVars, appVars>>

\* the steps of an invocation that is under way
SyncStep(r) ==
    \/ SyncConnect(r)
    \/ SyncConnectFails(r)
    \/ \E isNotionConnected \in BOOLEAN : TestConnection(r, isNotionConnected)
    \/ \E b \in Batches(store) : FindEntries(r, b)
    \/ FindRejects(r)
    \/ NextEntry(r)
    \/ \E success \in BOOLEAN : CreatePageReturns(r, success)
    \/ SaveResolves(r)
    \/ SaveRejects(r)
    \/ SyncDelayElapsed(r)
    \/ CatchSaveResolves(r)
    \/ CatchSaveRejects(r)
    \/ SyncFinally(r)

NextSync == \E r \in 1..MaxSyncs : SyncTrigger(r) \/ SyncStep(r)

(***************************************************************************)
(* Properties of the sync run and of the two jobs.                         *)
(***************************************************************************)
\* an invocation that was started and has not returned
InProgress(run) == run.pc \notin {"none", "skipped", "done"}

\* C36: the re-entrancy flag of each job is true exactly while one of its
\* invocations is in progress: it is released on every exit path (completion,
\* caught error, connection failure, early return on a failed Notion
\* connection test), so a later trigger is not skipped for a finished run.
C36_FlagReleasedOnEveryExit ==
    /\ isRunning = (\E r \in 1..MaxTriggers : InProgress(runs[r]))
    /\ syncRunning = (\E r \in 1..MaxSyncs : InProgress(syncs[r]))

\* a second runSync is under way after the first one has returned
C36_Witness ==
    /\ syncs[1].pc = "done"
    /\ InProgress(syncs[2])
    /\ syncRunning

\* a stored entry is marked created for a reason
CreatedForAReason ==
    \A i \in 1..Len(store) :
        store[i].created =>
            \/ store[i].entryId \in pageCreated
            \/ store[i].entryErrors >= maxEntryErrors

\* the entries of a batch were not created when they were selected
SelectedUncreated ==
    \A r \in 1..MaxSyncs :
        \A k \in 1..Len(syncs[r].picked) : ~syncs[r].picked[k]

\* an entry that enters the store is not created and has no errors
StartsUncreated ==
    Len(store') > Len(store) =>
        \A i \in (Len(store) + 1)..Len(store') :
            ~store'[i].created /\ store'[i].entryErrors = 0

\* C37: an entry has created = true only if createPage returned success for
\* it or its entryErrors has at least 5 items; entries saved by the crawler
\* start with created = false and no entryErrors; only entries with
\* created = false are selected for sync.
C37_CreatedOnlyAfterSuccessOrErrors ==
    /\ [](CreatedForAReason /\ SelectedUncreated)
    /\ [][StartsUncreated]_vars

\* an entry saved by the crawler is in the store, not created, next to an
\* entry given up after 5 errors and never created in Notion
C37_Witness ==
    /\ \E i \in 1..Len(store) :
           /\ store[i].created
           /\ store[i].entryId \notin pageCreated
           /\ store[i].entryErrors >= maxEntryErrors
    /\ \E j \in 1..Len(store) :
           /\ store[j].entryId = "e1"
           /\ ~store[j].created
    /\ Len(store) = 3

\* C38: every failed sync attempt of an entry appends exactly one item to
\* its entryErrors, and an entry with 5 items is marked created (so that it
\* is not selected again and every entry ends up created).
C38_OneErrorPerFailedAttempt ==
    /\ \A r \in 1..MaxSyncs :
           (syncs[r].last.entry /= 0 /\ syncs[r].last.failed) =>
               syncs[r].last.after = syncs[r].last.before + 1
    /\ \A i \in 1..Len(store) :
           store[i].entryErrors >= maxEntryErrors => store[i].created

\* C39: a failure while one entry of the batch is synced or saved does not
\* keep the remaining entries of the batch from being attempted: a run
\* that has its batch leaves the loop only after the last entry.
C39_RemainingEntriesAttempted ==
    \A r \in 1..MaxSyncs :
        (syncs[r].pc = "finally" /\ syncs[r].found) =>
            syncs[r].idx > Len(syncs[r].batch)

(***************************************************************************)
(* Application (src/index.ts): start() connects to the database, starts    *)
(* the two cron jobs and installs shutdown(signal) for SIGTERM, SIGINT and *)
(* SIGHUP.  Database.connect() has installed a SIGINT handler of its own   *)
(* before that, together with the handlers of the connection events.       *)
(***************************************************************************)
\* signals the process receives
MaxSignals == 2

Signals == {"SIGTERM", "SIGINT", "SIGHUP"}

InitApp ==
    /\ appStarted = FALSE
    /\ isShuttingDown = FALSE
    /\ crawlerCron = FALSE
    /\ syncCron = FALSE
    /\ shutdown = "none"
    /\ sigintHandler = "none"
    /\ exitCode = "none"
    /\ signals = 0
    /\ disconnectedInRun = FALSE

\* process.exit has not been called
Alive == exitCode = "none"

\* crawlerJob.isJobRunning() || notionSyncJob.isJobRunning()
jobsRunning == isRunning \/ syncRunning

\* mongoose.disconnect() is called by disconnect() when isConnected is set
closing(state) == IF isConnected THEN DISCONNECTING ELSE state

\* mongoose.disconnect() has resolved
closed(state) == IF isConnected THEN DISCONNECTED ELSE state

\* start(): database.connect() resolves, the jobs are started, the handlers
\* are installed
AppStart ==
    /\ Alive
    /\ ~appStarted
    /\ appStarted' = TRUE
    /\ isConnected' = TRUE
    /\ readyState' = CONNECTED
    /\ listening' = TRUE
    /\ crawlerCron' = TRUE
    /\ syncCron' = TRUE
    /\ UNCHANGED <<isShuttingDown, shutdown, sigintHandler, exitCode, signals,
                   disconnectedInRun>>
    /\ UNCHANGED <<isRunning, runs, inFlight, browser, store>>
    /\ UNCHANGED <<lost, dbCalls, dbEvent, wasConnected>>
    /\ UNCHANGED <<linkVars, scrapeVars, convVars, syncVars>>

\* start(): database.connect() rejects, or the configuration is not valid:
\* process.exit(1)
AppStartFails ==
    /\ Alive
    /\ ~appStarted
    /\ exitCode' = "1"
    /\ UNCHANGED <<appStarted, isShuttingDown, crawlerCron, syncCron, shutdown,
                   sigintHandler, signals, disconnectedInRun>>
    /\ UNCHANGED <<linkVars, scrapeVars, convVars, jobVars, dbVars, syncVars>>

\* the SIGINT handler of the Database runs for this signal
databaseHandles(sig) == sig = "SIGINT" /\ listening

\* a signal arrives: the handlers run in the order they were installed, each
\* up to its first await.  The handler of the Database calls disconnect().
\* shutdown(signal) exits with 1 when a shutdown is under way; else it stops
\* the jobs, sets the timer, and either waits for the jobs or, with no job
\* running, calls disconnect()
Signal(sig) ==
    /\ Alive
    /\ appStarted
    /\ signals < MaxSignals
    /\ signals' = signals + 1
    /\ sigintHandler' = IF databaseHandles(sig) THEN "disconnecting"
                        ELSE sigintHandler
    /\ IF isShuttingDown
       THEN /\ exitCode' = "1"
            /\ readyState' = IF databaseHandles(sig) THEN closing(readyState)
                             ELSE readyState
            /\ disconnectedInRun' =
                   (disconnectedInRun
                       \/ (databaseHandles(sig) /\ jobsRunning /\ isConnected))
            /\ UNCHANGED <<isShuttingDown, crawlerCron, syncCron, shutdown>>
       ELSE /\ isShuttingDown' = TRUE
            /\ crawlerCron' = FALSE
            /\ syncCron' = FALSE
            /\ shutdown' = IF jobsRunning THEN "waiting" ELSE "disconnecting"
            /\ readyState' = IF databaseHandles(sig) \/ ~jobsRunning
                             THEN closing(readyState) ELSE readyState
            /\ disconnectedInRun' =
                   (disconnectedInRun
                       \/ (databaseHandles(sig) /\ jobsRunning /\ isConnected))
            /\ UNCHANGED exitCode
    /\ UNCHANGED appStarted
    /\ UNCHANGED <<isRunning, runs, inFlight, browser, isConnected, store>>
    /\ UNCHANGED <<listening, lost, dbCalls, dbEvent, wasConnected>>
    /\ UNCHANGED <<linkVars, scrapeVars, convVars, syncVars>>

\* the loop of shutdown finds both jobs not running: the timer is cleared
\* and disconnect() is called
ShutdownPoll ==
    /\ Alive
    /\ shutdown = "waiting"
    /\ ~jobsRunning
    /\ shutdown' = "disconnecting"
    /\ readyState' = closing(readyState)
    /\ UNCHANGED <<appStarted, isShuttingDown, crawlerCron, syncCron,
                   sigintHandler, exitCode, signals, disconnectedInRun>>
    /\ UNCHANGED <<isRunning, runs, inFlight, browser, isConnected, store>>
    /\ UNCHANGED <<listening, lost, dbCalls, dbEvent, wasConnected>>
    /\ UNCHANGED <<linkVars, scrapeVars, convVars, syncVars>>

\* the timer of 30 s fires while shutdown waits: process.exit(1)
ShutdownTimeout ==
    /\ Alive
    /\ shutdown = "waiting"
    /\ exitCode' = "1"
    /\ UNCHANGED <<appStarted, isShuttingDown, crawlerCron, syncCron, shutdown,
                   sigintHandler, signals, disconnectedInRun>>
    /\ UNCHANGED <<linkVars, scrapeVars, convVars, jobVars, dbVars, syncVars>>

\* database.disconnect() resolves in shutdown: process.exit(0)
ShutdownDisconnected ==
    /\ Alive
    /\ shutdown = "disconnecting"
    /\ readyState' = closed(readyState)
    /\ isConnected' = FALSE
    /\ exitCode' = "0"
    /\ UNCHANGED <<appStarted, isShuttingDown, crawlerCron, syncCron, shutdown,
                   sigintHandler, signals, disconnectedInRun>>
    /\ UNCHANGED <<isRunning, runs, inFlight, browser, store>>
    /\ UNCHANGED <<listening, lost, dbCalls, dbEvent, wasConnected>>
    /\ UNCHANGED <<linkVars, scrapeVars, convVars, syncVars>>

\* database.disconnect() rejects in shutdown: the catch, process.exit(1)
ShutdownDisconnectFails ==
    /\ Alive
    /\ shutdown = "disconnecting"
    /\ isConnected
    /\ exitCode' = "1"
    /\ UNCHANGED <<appStarted, isShuttingDown, crawlerCron, syncCron, shutdown,
                   sigintHandler, signals, disconnectedInRun>>
    /\ UNCHANGED <<linkVars, scrapeVars, convVars, jobVars, dbVars, syncVars>>

\* this.disconnect() resolves in the SIGINT handler of the Database:
\* process.exit(0)
SigintHandlerDone ==
    /\ Alive
    /\ sigintHandler = "disconnecting"
    /\ readyState' = closed(readyState)
    /\ isConnected' = FALSE
    /\ exitCode' = "0"
    /\ UNCHANGED <<appStarted, isShuttingDown, crawlerCron, syncCron, shutdown,
                   sigintHandler, signals, disconnectedInRun>>
    /\ UNCHANGED <<isRunning, runs, inFlight, browser, store>>
    /\ UNCHANGED <<listening, lost, dbCalls, dbEvent, wasConnected>>
    /\ UNCHANGED <<linkVars, scrapeVars, convVars, syncVars>>

\* this.disconnect() rejects in the SIGINT handler of the Database: the
\* rejection is not handled and ends the process with code 1
SigintHandlerFails ==
    /\ Alive
    /\ sigintHandler = "disconnecting"
    /\ isConnected
    /\ exitCode' = "1"
    /\ UNCHANGED <<appStarted, isShuttingDown, crawlerCron, syncCron, shutdown,
                   sigintHandler, signals, disconnectedInRun>>
    /\ UNCHANGED <<linkVars, scrapeVars, convVars, jobVars, dbVars, syncVars>>

\* the crawler job of the process: its cron ticks while it is started
CrawlerJobStep ==
    /\ Alive
    /\ \A r \in 1..MaxSyncs : syncs[r].pc = "none"
    /\ \E r \in 1..MaxTriggers : (crawlerCron /\ Trigger(r)) \/ RunStep(r)

\* the sync job of the process: its cron ticks while it is started
SyncJobStep ==
    /\ Alive
    /\ \A r \in 1..MaxTriggers : runs[r].pc = "none"
    /\ \E r \in 1..MaxSyncs : (syncCron /\ SyncTrigger(r)) \/ SyncStep(r)

NextApp ==
    \/ AppStart
    \/ AppStartFails
    \/ \E sig \in Signals : Signal(sig)
    \/ ShutdownPoll
    \/ ShutdownTimeout
    \/ ShutdownDisconnected
    \/ ShutdownDisconnectFails
    \/ SigintHandlerDone
    \/ SigintHandlerFails
    \/ CrawlerJobStep
    \/ SyncJobStep

\* C35: on SIGTERM, SIGINT or SIGHUP the process neither disconnects from
\* the database nor exits with success while a crawler run or a sync run is
\* in progress: the jobs are stopped and both report not running first, or
\* the process exits with code 1.
C35_ShutdownWaitsForJobs ==
    /\ ~disconnectedInRun
    /\ exitCode = "0" => ~jobsRunning

(***************************************************************************)
(* Specifications.                                                         *)
(***************************************************************************)
Init ==
    /\ InitLinks /\ InitScrape /\ InitConvert /\ InitJobs /\ InitDatabase
    /\ InitSync /\ InitApp

\* one call of getArticleLinks
Next == NextLinks

Spec == Init /\ [][Next]_vars

\* every await of the call settles (each wait has a timeout), so the call
\* keeps taking steps until it returns
FairSpec == Init /\ [][Next]_vars /\ WF_vars(Next)

\* one call of scrapeArticle
ScrapeSpec == Init /\ [][NextScrape]_vars

\* one call of createPage
ConvertSpec == Init /\ [][NextConvert]_vars

\* the calls of connect and disconnect of one process
DatabaseSpec == Init /\ [][NextDatabase]_vars

\* the invocations of runCrawler of one process
CrawlSpec == Init /\ [][NextCrawl]_vars

\* every await of a run settles (the fetches and the database operations
\* have timeouts), so an invocation under way keeps taking steps
CrawlFairSpec ==
    Init /\ [][NextCrawl]_vars /\ \A r \in 1..MaxTriggers : WF_vars(RunStep(r))

\* the invocations of runSync of one process
SyncSpec == Init /\ [][NextSync]_vars

\* a process in which one of the two jobs is scheduled
NextEitherJob ==
    \/ (\A r \in 1..MaxSyncs : syncs[r].pc = "none") /\ NextCrawl
    \/ (\A r \in 1..MaxTriggers : runs[r].pc = "none") /\ NextSync

EitherJobSpec == Init /\ [][NextEitherJob]_vars

\* the first invocation of each of the two jobs of one process, overlapping
\* in any way
NextJobs == Trigger(1) \/ RunStep(1) \/ SyncTrigger(1) \/ SyncStep(1)

JobsSpec == Init /\ [][NextJobs]_vars

\* the process of Application.start() and the signals it receives
ShutdownSpec == Init /\ [][NextApp]_vars

=============================================================================
